---- MODULE Spec2Model ----
(***************************************************************************)
(* MENRO reporting: the category canonicalizer, the aggregation of the     *)
(* per-enforcer worksheets and the KPI calculations of the dashboards.     *)
(*                                                                         *)
(* Text is a sequence of one-character strings, so that trimming,          *)
(* splitting, prefix tests, parsing and formatting are computed character  *)
(* by character as the Python code computes them.  Every worksheet cell is *)
(* text: a numeric cell is the text of its number.                         *)
(***************************************************************************)
EXTENDS Integers, Sequences, FiniteSets, TLC

VARIABLES
    label,        \* the category label handed to canonicalize_category
    canonOut,     \* what canonicalize_category returned for it
    canonRan,     \* whether canonicalize_category has run on label
    spreadsheet,  \* the record store: its worksheets, in tab order
    page,         \* what the last pass of the Reports Dashboard script showed
    session_state,\* st.session_state of the entry page session
    entry,        \* what the last pass of the entry page script did
    opening,      \* the call of get_client_and_sheet(): attempts and waits
    sessions      \* the sessions of dashboard.py that save step by step

canonVars == <<label, canonOut, canonRan>>
entryVars == <<session_state, entry, opening>>
vars == <<label, canonOut, canonRan, spreadsheet, page,
          session_state, entry, opening, sessions>>

----------------------------------------------------------------------------
(* Text primitives (Python str methods)                                    *)

\* The whitespace characters of the modelled alphabet: str.strip() and
\* str.split() with no argument treat both as separators.
Whitespace == {" ", "\t"}

\* s.strip(): from the first to the last character that is not whitespace
strip(s) ==
    LET inked == { i \in 1..Len(s) : s[i] \notin Whitespace }
    IN  IF inked = {} THEN <<>>
        ELSE SubSeq(s, CHOOSE i \in inked : \A j \in inked : i <= j,
                       CHOOSE i \in inked : \A j \in inked : i >= j)

\* s.split(): the maximal runs of non-whitespace characters, in order
split(s) ==
    LET starts == { i \in 1..Len(s) :
                      s[i] \notin Whitespace /\ (i = 1 \/ s[i - 1] \in Whitespace) }
        ends   == { i \in 1..Len(s) :
                      s[i] \notin Whitespace /\ (i = Len(s) \/ s[i + 1] \in Whitespace) }
        nth(S, k) == CHOOSE i \in S : Cardinality({ j \in S : j < i }) = k - 1
    IN  [ k \in 1..Cardinality(starts) |-> SubSeq(s, nth(starts, k), nth(ends, k)) ]

RECURSIVE join_first(_, _, _)
join_first(sep, parts, n) ==
    IF n = 0 THEN <<>>
    ELSE IF n = 1 THEN parts[1]
    ELSE join_first(sep, parts, n - 1) \o sep \o parts[n]

\* sep.join(parts)
join(sep, parts) == join_first(sep, parts, Len(parts))

\* s.startswith(p)
startswith(s, p) == Len(s) >= Len(p) /\ SubSeq(s, 1, Len(p)) = p

\* s.split(sep) for a one-character separator: the pieces between the
\* separators, empty pieces included
split_on(s, sep) ==
    LET cuts == { i \in 1..Len(s) : s[i] = sep }
        nth(k) == CHOOSE i \in cuts : Cardinality({ j \in cuts : j < i }) = k - 1
        from(k) == IF k = 1 THEN 1 ELSE nth(k - 1) + 1
        to(k)   == IF k = Cardinality(cuts) + 1 THEN Len(s) ELSE nth(k) - 1
    IN  [ k \in 1..(Cardinality(cuts) + 1) |-> SubSeq(s, from(k), to(k)) ]

\* The characters of the modelled alphabet in code-point order
CodePoints ==
    <<"\t", " ", "&", "(", ")", ",", "-", ".",
      "0", "1", "2", "3", "4", "5", "6", "7", "8", "9",
      "A", "B", "C", "D", "E", "F", "G", "H", "I", "J", "K", "L", "M",
      "N", "O", "P", "Q", "R", "S", "T", "U", "V", "W", "X", "Y", "Z",
      "a", "b", "c", "d", "e", "f", "g", "h", "i", "j", "k", "l", "m",
      "n", "o", "p", "q", "r", "s", "t", "u", "v", "w", "x", "y", "z">>

\* ord(c), up to an order-preserving renumbering
ord(c) == CHOOSE i \in 1..Len(CodePoints) : CodePoints[i] = c

RECURSIVE first_differ(_, _, _)
\* The first position from i on where a and b differ, or where one has ended
first_differ(a, b, i) ==
    IF i > Len(a) \/ i > Len(b) \/ a[i] # b[i] THEN i
    ELSE first_differ(a, b, i + 1)

\* a < b on str: lexicographic by code point; at the first position where
\* the two differ, the one that has ended or has the smaller character is
\* the smaller
str_lt(a, b) ==
    LET i == first_differ(a, b, 1)
    IN  IF i > Len(a) THEN i <= Len(b)
        ELSE i <= Len(b) /\ ord(a[i]) < ord(b[i])

----------------------------------------------------------------------------
(* Numbers as text: int(), str(), format specs, pd.to_numeric              *)

DigitChars == <<"0", "1", "2", "3", "4", "5", "6", "7", "8", "9">>

IsDigit(c) == \E i \in 1..Len(DigitChars) : DigitChars[i] = c

DigitValue(c) == (CHOOSE i \in 1..Len(DigitChars) : DigitChars[i] = c) - 1

IsDigits(s) == s # <<>> /\ \A i \in 1..Len(s) : IsDigit(s[i])

RECURSIVE ParseDigits(_, _)
ParseDigits(s, acc) ==
    IF s = <<>> THEN acc
    ELSE ParseDigits(Tail(s), acc * Len(DigitChars) + DigitValue(Head(s)))

\* Whether int(s) / pd.to_numeric(s) accepts the text: an optional sign and
\* decimal digits (the cells of the model hold no fractions or exponents)
IsIntText(s) ==
    IF s # <<>> /\ Head(s) = "-" THEN IsDigits(Tail(s)) ELSE IsDigits(s)

\* int(s) for accepted text
int(s) ==
    IF Head(s) = "-" THEN 0 - ParseDigits(Tail(s), 0) ELSE ParseDigits(s, 0)

RECURSIVE NatToText(_)
NatToText(n) ==
    IF n < Len(DigitChars) THEN <<DigitChars[n + 1]>>
    ELSE NatToText(n \div Len(DigitChars))
           \o <<DigitChars[(n % Len(DigitChars)) + 1]>>

\* str(n) / f"{n}"
str(n) == IF n < 0 THEN <<"-">> \o NatToText(0 - n) ELSE NatToText(n)

RECURSIVE zfill(_, _)
zfill(s, width) == IF Len(s) >= width THEN s ELSE zfill(<<"0">> \o s, width)

\* f"{n:02d}" for n >= 0
format_02d(n) == zfill(NatToText(n), 2)

----------------------------------------------------------------------------
(* Calendar: pd.to_datetime, Timestamp arithmetic, strftime                *)
(* A Timestamp at midnight is the number of days since 1970-01-01.         *)

\* pandas' NaT, the null date marker (INT64_MIN in pandas; below every date)
NaT == 0 - 2147483647

IsLeap(y) == (y % 4 = 0 /\ y % 100 # 0) \/ y % 400 = 0

DaysInMonth(y, m) ==
    IF m = 2 THEN (IF IsLeap(y) THEN 29 ELSE 28)
    ELSE IF m \in {4, 6, 9, 11} THEN 30 ELSE 31

\* The proleptic Gregorian day count of a civil date
days_from_civil(y, m, d) ==
    LET yy  == IF m <= 2 THEN y - 1 ELSE y
        era == yy \div 400
        yoe == yy - era * 400
        mp  == IF m > 2 THEN m - 3 ELSE m + 9
        doy == (153 * mp + 2) \div 5 + d - 1
        doe == yoe * 365 + yoe \div 4 - yoe \div 100 + doy
    IN  era * 146097 + doe - 719468

\* The civil date <<y, m, d>> of a day count
civil_from_days(z) ==
    LET zz  == z + 719468
        era == zz \div 146097
        doe == zz - era * 146097
        yoe == (doe - doe \div 1460 + doe \div 36524 - doe \div 146096) \div 365
        doy == doe - (365 * yoe + yoe \div 4 - yoe \div 100)
        mp  == (5 * doy + 2) \div 153
        d   == doy - (153 * mp + 2) \div 5 + 1
        m   == IF mp < 10 THEN mp + 3 ELSE mp - 9
        y   == yoe + era * 400
    IN  <<IF m <= 2 THEN y + 1 ELSE y, m, d>>

\* A parse that dates what it cannot read 1970-01-01 instead of NaT
to_datetime_epoch(cell) ==
    LET parts == split_on(cell, "-")
    IN  IF Len(parts) = 3 /\ \A i \in 1..3 : IsDigits(parts[i])
        THEN LET y == int(parts[1])
                 m == int(parts[2])
                 d == int(parts[3])
             IN  IF /\ y >= 1678 /\ y <= 2261
                    /\ m >= 1 /\ m <= 12
                    /\ d >= 1 /\ d <= DaysInMonth(y, m)
                 THEN days_from_civil(y, m, d)
                 ELSE 0
        ELSE 0

\* pd.to_datetime(cell, errors="coerce") for one cell: "YYYY-MM-DD" text of a
\* real calendar day inside the Timestamp range becomes that day, anything
\* else becomes NaT
to_datetime(cell) ==
    LET parts == split_on(cell, "-")
    IN  IF Len(parts) = 3 /\ \A i \in 1..3 : IsDigits(parts[i])
        THEN LET y == int(parts[1])
                 m == int(parts[2])
                 d == int(parts[3])
             IN  IF /\ y >= 1678 /\ y <= 2261
                    /\ m >= 1 /\ m <= 12
                    /\ d >= 1 /\ d <= DaysInMonth(y, m)
                 THEN days_from_civil(y, m, d)
                 ELSE NaT
        ELSE NaT

\* The missing value of a text column (NaN)
NaN == <<"NaN">>

\* Timestamp.strftime("%Y-%m"); NaT gives the missing value
strftime_Y_m(ts) ==
    IF ts = NaT THEN NaN
    ELSE LET c == civil_from_days(ts)
         IN  zfill(NatToText(c[1]), 4) \o <<"-">> \o format_02d(c[2])

\* Timestamp.strftime("%Y-%m-%d")
strftime_Y_m_d(ts) ==
    IF ts = NaT THEN NaN
    ELSE LET c == civil_from_days(ts)
         IN  zfill(NatToText(c[1]), 4) \o <<"-">> \o format_02d(c[2])
               \o <<"-">> \o format_02d(c[3])

----------------------------------------------------------------------------
(* Category canonicalizer (pages/Reports Dashboard.py)                     *)

\* "II. Surveillance, Investigation, Monitoring, Documentation, and Inspection"
CANON_II ==
    <<"I","I","."," ","S","u","r","v","e","i","l","l","a","n","c","e",","," ","I","n","v","e","s","t","i","g","a","t","i","o","n",","," ","M","o","n","i","t","o","r","i","n","g",","," ","D","o","c","u","m","e","n","t","a","t","i","o","n",","," ","a","n","d"," ","I","n","s","p","e","c","t","i","o","n">>

\* "III. Information, Education, and Communication (IEC) Campaign"
CANON_III ==
    <<"I","I","I","."," ","I","n","f","o","r","m","a","t","i","o","n",","," ","E","d","u","c","a","t","i","o","n",","," ","a","n","d"," ","C","o","m","m","u","n","i","c","a","t","i","o","n"," ","(","I","E","C",")"," ","C","a","m","p","a","i","g","n">>

\* "I. Issuance of Citation Tickets"
CANON_I ==
    <<"I","."," ","I","s","s","u","a","n","c","e"," ","o","f"," ","C","i","t","a","t","i","o","n"," ","T","i","c","k","e","t","s">>

\* "IV. Other Tasks"
CANON_IV ==
    <<"I","V","."," ","O","t","h","e","r"," ","T","a","s","k","s">>

\* "II. Surveillance"
PREFIX_II ==
    <<"I","I","."," ","S","u","r","v","e","i","l","l","a","n","c","e">>

\* "III. Information, Education"
PREFIX_III ==
    <<"I","I","I","."," ","I","n","f","o","r","m","a","t","i","o","n",","," ","E","d","u","c","a","t","i","o","n">>

\* "I. Issuance of Citation Tickets"
PREFIX_I ==
    <<"I","."," ","I","s","s","u","a","n","c","e"," ","o","f"," ","C","i","t","a","t","i","o","n"," ","T","i","c","k","e","t","s">>

\* "IV. Other"
PREFIX_IV ==
    <<"I","V","."," ","O","t","h","e","r">>

\* "II."
P_II_DOT ==
    <<"I","I",".">>

\* "Surveillance"
P_SURVEILLANCE ==
    <<"S","u","r","v","e","i","l","l","a","n","c","e">>

\* " Tasks"
P_TASKS ==
    <<" ","T","a","s","k","s">>

\* canonicalize_category with the returns of the first two tests swapped
canonicalize_swapped(s) ==
    LET n == join(<<" ">>, split(strip(s)))
    IN  IF startswith(n, PREFIX_II) THEN CANON_III
        ELSE IF startswith(n, PREFIX_III) THEN CANON_II
        ELSE IF startswith(n, PREFIX_I) THEN CANON_I
        ELSE IF startswith(n, PREFIX_IV) THEN CANON_IV
        ELSE n

\* canonicalize_category that trims but does not collapse inner whitespace
canonicalize_trim_only(s) ==
    LET n == strip(s)
    IN  IF startswith(n, PREFIX_II) THEN CANON_II
        ELSE IF startswith(n, PREFIX_III) THEN CANON_III
        ELSE IF startswith(n, PREFIX_I) THEN CANON_I
        ELSE IF startswith(n, PREFIX_IV) THEN CANON_IV
        ELSE n

\* canonicalize_category(s).  A cell that is not a str is first turned into
\* its text by str(s); cells are text here, so that step changes nothing.
canonicalize_category(s) ==
    LET n == join(<<" ">>, split(strip(s)))
    IN  IF startswith(n, PREFIX_II) THEN CANON_II
        ELSE IF startswith(n, PREFIX_III) THEN CANON_III
        ELSE IF startswith(n, PREFIX_I) THEN CANON_I
        ELSE IF startswith(n, PREFIX_IV) THEN CANON_IV
        ELSE n

----------------------------------------------------------------------------
(* The record store: a spreadsheet of worksheets (gspread)                 *)
(* spreadsheet is the sequence of its worksheets in tab order; a worksheet *)
(* is [title, values], values being its rows, each a sequence of cells.    *)

\* "Enforcer 1"
ENFORCER_1 ==
    <<"E","n","f","o","r","c","e","r"," ","1">>

\* "Enforcer 2"
ENFORCER_2 ==
    <<"E","n","f","o","r","c","e","r"," ","2">>

\* "Enforcer 3"
ENFORCER_3 ==
    <<"E","n","f","o","r","c","e","r"," ","3">>

\* "Enforcer 4"
ENFORCER_4 ==
    <<"E","n","f","o","r","c","e","r"," ","4">>

\* "Enforcer 5"
ENFORCER_5 ==
    <<"E","n","f","o","r","c","e","r"," ","5">>

\* "Date"
H_Date ==
    <<"D","a","t","e">>

\* "Enforcer"
H_Enforcer ==
    <<"E","n","f","o","r","c","e","r">>

\* "Category"
H_Category ==
    <<"C","a","t","e","g","o","r","y">>

\* "Activity"
H_Activity ==
    <<"A","c","t","i","v","i","t","y">>

\* "Quantity"
H_Quantity ==
    <<"Q","u","a","n","t","i","t","y">>

\* "Remarks"
H_Remarks ==
    <<"R","e","m","a","r","k","s">>

\* "I. Citation Tickets"
SHORT_I ==
    <<"I","."," ","C","i","t","a","t","i","o","n"," ","T","i","c","k","e","t","s">>

\* "II. Surveillance & Inspection"
SHORT_II ==
    <<"I","I","."," ","S","u","r","v","e","i","l","l","a","n","c","e"," ","&"," ","I","n","s","p","e","c","t","i","o","n">>

\* "III. IEC Campaign"
SHORT_III ==
    <<"I","I","I","."," ","I","E","C"," ","C","a","m","p","a","i","g","n">>

\* "IV. Other Tasks"
SHORT_IV ==
    <<"I","V","."," ","O","t","h","e","r"," ","T","a","s","k","s">>

\* ENFORCERS of the manager dashboards (the roster, in the order written)
ENFORCERS == <<ENFORCER_1, ENFORCER_2, ENFORCER_3, ENFORCER_4, ENFORCER_5>>

EXPECTED_HEADERS ==
    <<H_Date, H_Enforcer, H_Category, H_Activity, H_Quantity, H_Remarks>>

\* CATEGORY_SHORT.get(x, x)
CATEGORY_SHORT_get(x) ==
    IF x = CANON_I THEN SHORT_I
    ELSE IF x = CANON_II THEN SHORT_II
    ELSE IF x = CANON_III THEN SHORT_III
    ELSE IF x = CANON_IV THEN SHORT_IV
    ELSE x

\* The set of elements of a sequence
Range(seq) == { seq[i] : i \in DOMAIN seq }

\* Whether spreadsheet.worksheet(title) finds a worksheet
has_worksheet(ss, title) == \E i \in DOMAIN ss : ss[i].title = title

\* spreadsheet.worksheet(title): the position of the first worksheet so named
worksheet(ss, title) ==
    CHOOSE i \in DOMAIN ss :
        /\ ss[i].title = title
        /\ \A j \in DOMAIN ss : ss[j].title = title => i <= j

\* The position of the column that the header row names h, 0 when no cell
\* of the header row reads h
column_of(header, h) ==
    IF \E j \in DOMAIN header : header[j] = h
    THEN CHOOSE j \in DOMAIN header : header[j] = h
    ELSE 0

\* ws.get_all_records(): the rows under the first row, keyed by the cells of
\* the first row; a column that the first row does not name is absent from
\* the records, and reads NaN once the frames are concatenated
get_all_records(values) ==
    IF Len(values) <= 1 THEN <<>>
    ELSE LET header == values[1]
             cDate     == column_of(header, H_Date)
             cEnforcer == column_of(header, H_Enforcer)
             cCategory == column_of(header, H_Category)
             cActivity == column_of(header, H_Activity)
             cQuantity == column_of(header, H_Quantity)
             cRemarks  == column_of(header, H_Remarks)
             cell(row, c) == IF c = 0 THEN NaN ELSE row[c]
         IN  [ i \in 1..(Len(values) - 1) |->
                 [ Date     |-> cell(values[i + 1], cDate),
                   Enforcer |-> cell(values[i + 1], cEnforcer),
                   Category |-> cell(values[i + 1], cCategory),
                   Activity |-> cell(values[i + 1], cActivity),
                   Quantity |-> cell(values[i + 1], cQuantity),
                   Remarks  |-> cell(values[i + 1], cRemarks) ] ]

RECURSIVE concat_frames(_, _, _)
\* The frames of the worksheets named in titles, in that order, concatenated:
\* a missing worksheet and a worksheet with no records add nothing
concat_frames(ss, titles, acc) ==
    IF titles = <<>> THEN acc
    ELSE IF ~has_worksheet(ss, Head(titles))
         THEN concat_frames(ss, Tail(titles), acc)
         ELSE concat_frames(ss, Tail(titles),
                  acc \o get_all_records(ss[worksheet(ss, Head(titles))].values))

\* pd.to_numeric(cell, errors="coerce"), then fillna(0).astype(int)
to_quantity(cell) == IF IsIntText(cell) THEN int(cell) ELSE 0

\* load_all() of pages/Reports Dashboard.py: the unified table
load_all(ss) ==
    LET raw == concat_frames(ss, ENFORCERS, <<>>)
    IN  [ i \in DOMAIN raw |->
            LET ts  == to_datetime(raw[i].Date)
                cat == canonicalize_category(raw[i].Category)
            IN  [ Date          |-> ts,
                  Enforcer      |-> raw[i].Enforcer,
                  Category      |-> cat,
                  Activity      |-> raw[i].Activity,
                  Quantity      |-> to_quantity(raw[i].Quantity),
                  Remarks       |-> raw[i].Remarks,
                  Month         |-> strftime_Y_m(ts),
                  CategoryShort |-> CATEGORY_SHORT_get(cat) ] ]

----------------------------------------------------------------------------
(* DataFrame operations (pandas)                                           *)

RECURSIVE sum_quantity(_)
\* frame["Quantity"].sum()
sum_quantity(frame) ==
    IF frame = <<>> THEN 0
    ELSE Head(frame).Quantity + sum_quantity(Tail(frame))

\* frame[column].nunique() for the Enforcer column
nunique_enforcer(frame) == Cardinality({ frame[i].Enforcer : i \in DOMAIN frame })

\* Whether a value of the named column is the missing value of its type
is_missing(col, v) == IF col = "Date" THEN v = NaT ELSE v = NaN

\* frame.groupby(cols)["Quantity"].sum(): one group per key present, a key
\* being the row's values in the columns cols; the rows with a missing value
\* (NaT, NaN) in a key column are left out, which is groupby's default
\* dropna=True.  The result maps each key to the sum of its rows.
groupby_sum(frame, cols) ==
    LET key(r)     == [ i \in DOMAIN cols |-> r[cols[i]] ]
        missing(r) == \E i \in DOMAIN cols : is_missing(cols[i], r[cols[i]])
        kept       == SelectSeq(frame, LAMBDA r : ~missing(r))
        keys       == { key(kept[i]) : i \in DOMAIN kept }
    IN  [ k \in keys |-> sum_quantity(SelectSeq(kept, LAMBDA r : key(r) = k)) ]

RECURSIVE sum_groups_over(_, _)
sum_groups_over(groups, keys) ==
    IF keys = {} THEN 0
    ELSE LET k == CHOOSE x \in keys : TRUE
         IN  groups[k] + sum_groups_over(groups, keys \ {k})

\* grouped["Quantity"].sum(): the total over the groups
sum_groups(groups) == sum_groups_over(groups, DOMAIN groups)

RECURSIVE sorted(_)
\* sorted(strings): ascending by code point
sorted(S) ==
    IF S = {} THEN <<>>
    ELSE LET k    == CHOOSE x \in S : TRUE
             rest == sorted(S \ {k})
             pos  == Cardinality({ i \in DOMAIN rest : str_lt(rest[i], k) })
         IN  SubSeq(rest, 1, pos) \o <<k>> \o SubSeq(rest, pos + 1, Len(rest))

----------------------------------------------------------------------------
(* KPI calculations (pages/Reports Dashboard.py)                           *)

\* effective_selection = chosen if chosen else ENFORCERS
effective_selection(chosen) == IF chosen # {} THEN chosen ELSE Range(ENFORCERS)

\* frame[frame["Enforcer"].isin(selection)]
isin_enforcer(frame, selection) ==
    SelectSeq(frame, LAMBDA r : r.Enforcer \in selection)

\* A comparison of Timestamps: with NaT on either side it is False
date_ge(a, b) == a # NaT /\ b # NaT /\ a >= b
date_le(a, b) == a # NaT /\ b # NaT /\ a <= b

\* frame[(frame["Date"] >= lo) & (frame["Date"] <= hi)]
between_dates(frame, lo, hi) ==
    SelectSeq(frame, LAMBDA r : date_ge(r.Date, lo) /\ date_le(r.Date, hi))

\* frame[frame["Month"].isin(months)]
isin_month(frame, months) ==
    SelectSeq(frame, LAMBDA r : r.Month \in months)

\* The values percent_change can be handed: a number, None, or NaN
Number(n) == [kind |-> "number", v |-> n]
None == [kind |-> "None", v |-> 0]
NaNValue == [kind |-> "NaN", v |-> 0]

\* What percent_change returns: None (Undefined), or the quotient num / den,
\* kept exact instead of rounded to a float
Undefined == [defined |-> FALSE, num |-> 0, den |-> 1]
Quotient(num, den) == [defined |-> TRUE, num |-> num, den |-> den]

\* percent_change(curr, prev)
\* A percent_change that tests only for a missing previous value
percent_change_unguarded(curr, prev) ==
    IF prev.kind # "number" THEN Undefined
    ELSE Quotient((curr - prev.v) * 100, prev.v)

percent_change(curr, prev) ==
    IF (prev.kind = "number" /\ prev.v = 0) \/ prev.kind = "None"
       \/ prev.kind = "NaN"
    THEN Undefined
    ELSE Quotient((curr - prev.v) * 100, prev.v)

\* dfv["Date"].min() and .max(): NaT is skipped
valid_dates(frame) == { frame[i].Date : i \in DOMAIN frame } \ {NaT}
min_date(frame) == CHOOSE d \in valid_dates(frame) : \A e \in valid_dates(frame) : d <= e
max_date(frame) == CHOOSE d \in valid_dates(frame) : \A e \in valid_dates(frame) : d >= e

\* A previous window that ends on d1 itself
daily_prev_window_overlapping(d1, d2) ==
    LET span_days == (d2 - d1) + 1
    IN  [ start |-> (d1 - span_days) + 1, end |-> d1 ]

\* The previous day window of the daily view: span_days, prev_start, prev_end
daily_prev_window(d1, d2) ==
    LET span_days == (d2 - d1) + 1
    IN  [ start |-> d1 - span_days, end |-> d1 - 1 ]

\* prev_df and total_prev of the daily view
daily_total_prev(df, selection, d1, d2) ==
    LET w       == daily_prev_window(d1, d2)
        prev_df == between_dates(isin_enforcer(df, selection), w.start, w.end)
    IN  IF prev_df # <<>> THEN sum_quantity(prev_df) ELSE 0

\* A month step that keeps the year when it leaves January
prev_month_same_year(mstr) ==
    LET parts == split_on(mstr, "-")
        y     == int(parts[1])
        m     == int(parts[2])
    IN  IF m = 1 THEN str(y) \o <<"-", "1", "2">>
        ELSE str(y) \o <<"-">> \o format_02d(m - 1)

\* prev_month(mstr) of the monthly view
prev_month(mstr) ==
    LET parts == split_on(mstr, "-")
        y     == int(parts[1])
        m     == int(parts[2])
    IN  IF m = 1 THEN str(y - 1) \o <<"-", "1", "2">>
        ELSE str(y) \o <<"-">> \o format_02d(m - 1)

RECURSIVE walk_back(_, _)
\* The loop that collects block_len months, newest first, starting at cur
walk_back(cur, block_len) ==
    IF block_len = 0 THEN <<>>
    ELSE <<cur>> \o walk_back(prev_month(cur), block_len - 1)

\* reversed(...)
reversed(seq) == [ i \in DOMAIN seq |-> seq[Len(seq) + 1 - i] ]

\* prev_block for the selected months sel (not empty)
monthly_prev_block(sel) ==
    LET sel_sorted == sorted(sel)
        block_len  == Len(sel_sorted)
        prev_end_m == prev_month(sel_sorted[1])
    IN  reversed(walk_back(prev_end_m, block_len))

\* prev_df and total_prev of the monthly view
monthly_total_prev(df, selection, sel) ==
    IF sel # {}
    THEN LET prev_df == isin_month(isin_enforcer(df, selection),
                                   Range(monthly_prev_block(sel)))
         IN  IF prev_df # <<>> THEN sum_quantity(prev_df) ELSE 0
    ELSE 0

\* prod / prod_m before the sort: dfv.groupby("Enforcer", as_index=False)
\* ["Quantity"].sum(), one row per enforcer in ascending order of the name
prod_grouped(dfv) ==
    LET g     == groupby_sum(dfv, <<"Enforcer">>)
        names == sorted({ k[1] : k \in DOMAIN g })
    IN  [ i \in DOMAIN names |->
            [ Enforcer |-> names[i], Quantity |-> g[<<names[i]>>] ] ]

\* An ascending sort: the rows of least Quantity come first
sort_values_ascending_first(grouped) ==
    { i \in DOMAIN grouped :
        \A j \in DOMAIN grouped : grouped[i].Quantity <= grouped[j].Quantity }

\* .sort_values("Quantity", ascending=False), then .iloc[0]: the rows that
\* can come first.  sort_values sorts with kind="quicksort", which is not a
\* stable sort, so among rows of equal Quantity any one can come first.
sort_values_first(grouped) ==
    { i \in DOMAIN grouped :
        \A j \in DOMAIN grouped : grouped[j].Quantity <= grouped[i].Quantity }

\* A share that counts rows instead of distinct enforcers
pct_active_of_rows(dfv, selection) ==
    IF Cardinality(selection) # 0
    THEN Quotient(100 * Len(dfv), Cardinality(selection))
    ELSE Quotient(0, 1)

\* pct_active / pct_active_m: 100.0 * nunique / len(effective_selection)
pct_active_of(dfv, selection) ==
    IF Cardinality(selection) # 0
    THEN Quotient(100 * nunique_enforcer(dfv), Cardinality(selection))
    ELSE Quotient(0, 1)

\* A year-to-date total that ignores the enforcer filter
ytd_total_of_all_enforcers(df, selection, today) ==
    LET year_start == days_from_civil(civil_from_days(today)[1], 1, 1)
        ytd_df     == SelectSeq(df, LAMBDA r : date_ge(r.Date, year_start))
    IN  IF ytd_df # <<>> THEN sum_quantity(ytd_df) ELSE 0

\* ytd_df and ytd_total; today is date.today()
ytd_total_of(df, selection, today) ==
    LET year_start == days_from_civil(civil_from_days(today)[1], 1, 1)
        ytd_df     == SelectSeq(isin_enforcer(df, selection),
                                LAMBDA r : date_ge(r.Date, year_start))
    IN  IF ytd_df # <<>> THEN sum_quantity(ytd_df) ELSE 0

----------------------------------------------------------------------------
(* dashboard.py: the entry page that saves a day's counts and rebuilds the *)
(* report worksheets                                                       *)

\* "Daily Report"
DAILY_REPORT ==
    <<"D","a","i","l","y"," ","R","e","p","o","r","t">>

\* "Monthly Report"
MONTHLY_REPORT ==
    <<"M","o","n","t","h","l","y"," ","R","e","p","o","r","t">>

\* "Daily - "
PREFIX_DAILY ==
    <<"D","a","i","l","y"," ","-"," ">>

\* "Monthly - "
PREFIX_MONTHLY ==
    <<"M","o","n","t","h","l","y"," ","-"," ">>

\* "Month"
H_Month ==
    <<"M","o","n","t","h">>

\* "No data"
NO_DATA ==
    <<"N","o"," ","d","a","t","a">>

REPORT_TABS == {DAILY_REPORT, MONTHLY_REPORT}

\* The categories and their activities, in the order of the dict
categories ==
    <<
      [ cat  |-> CANON_I,
        acts |-> <<
              <<"N","o"," ","T","r","e","e","-","C","u","t","t","i","n","g",
                " ","P","e","r","m","i","t">>,
              <<"U","n","r","e","g","i","s","t","e","r","e","d"," ","C","h",
                "a","i","n","s","a","w">>,
              <<"V","i","o","l","a","t","i","o","n"," ","o","f"," ","P","l",
                "a","s","t","i","c","s"," ","O","r","d","i","n","a","n","c",
                "e">>,
              <<"V","i","o","l","a","t","i","o","n"," ","o","f"," ","S","o",
                "l","i","d"," ","W","a","s","t","e"," ","M","a","n","a","g",
                "e","m","e","n","t"," ","O","r","d","i","n","a","n","c","e">>,
              <<"O","p","e","n"," ","D","u","m","p","i","n","g"," ","o","f",
                " ","W","a","s","t","e">>,
              <<"V","i","o","l","a","t","i","o","n"," ","o","f"," ","T","a",
                "p","a","t"," ","K","o",","," ","L","i","n","i","s"," ","K",
                "o"," ","P","r","o","g","r","a","m">>,
              <<"V","i","o","l","a","t","i","o","n"," ","o","f"," ","A","n",
                "t","i","-","L","i","t","t","e","r","i","n","g"," ","O","r",
                "d","i","n","a","n","c","e">>,
              <<"V","i","o","l","a","t","i","o","n"," ","o","f"," ","O","p",
                "e","n"," ","B","u","r","n","i","n","g"," ","O","r","d","i",
                "n","a","n","c","e">>,
              <<"O","t","h","e","r"," ","E","n","v","i","r","o","n","m","e",
                "n","t","a","l"," ","O","r","d","i","n","a","n","c","e"," ",
                "V","i","o","l","a","t","i","o","n","s">> >> ],
      [ cat  |-> CANON_II,
        acts |-> <<
              <<"B","i","n","a","n","g","o","n","a","n"," ","K","a","l","i",
                "n","i","s","a","n"," ","P","a","t","r","o","l"," ","(","B",
                "K","P",")">>,
              <<"H","a","n","d","l","i","n","g"," ","o","f"," ","E","n","v",
                "i","r","o","n","m","e","n","t","a","l"," ","C","o","m","p",
                "l","a","i","n","t","s">>,
              <<"R","e","s","p","o","n","s","e"," ","t","o"," ","E","n","v",
                "i","r","o","n","m","e","n","t","a","l"," ","I","n","c","i",
                "d","e","n","t","s">>,
              <<"D","e","l","i","v","e","r","y"," ","o","f"," ","L","e","t",
                "t","e","r","s"," ","a","n","d"," ","N","o","t","i","c","e",
                "s">>,
              <<"I","n","s","p","e","c","t","i","o","n"," ","o","f"," ","M",
                "R","F","s",","," ","C","o","m","p","o","s","t","i","n","g",
                " ","F","a","c","i","l","i","t","i","e","s",","," ","a","n",
                "d"," ","E","c","o","-","G","a","r","d","e","n","s">> >> ],
      [ cat  |-> CANON_III,
        acts |-> <<
              <<"D","i","s","s","e","m","i","n","a","t","i","o","n"," ","o",
                "f"," ","I","E","C"," ","M","a","t","e","r","i","a","l","s">>,
              <<"A","s","s","i","s","t","a","n","c","e"," ","i","n"," ","C",
                "o","n","d","u","c","t","i","n","g"," ","I","E","C"," ","C",
                "a","m","p","a","i","g","n"," ","A","c","t","i","v","i","t",
                "i","e","s">> >> ],
      [ cat  |-> CANON_IV,
        acts |-> <<
              <<"O","t","h","e","r"," ","d","u","t","i","e","s"," ","a","s",
                "s","i","g","n","e","d"," ","b","y"," ","t","h","e"," ","M",
                "E","N","R","O"," ","o","r"," ","L","G","U">> >> ] >>

\* get_or_create_ws(title) of dashboard.py: a worksheet that is added has no
\* cells
get_or_create_ws(ss, title) ==
    IF has_worksheet(ss, title) THEN ss
    ELSE Append(ss, [ title |-> title, values |-> <<>> ])

\* overwrite(ws, df): the cells are cleared, then written from A1; columns
\* and rows are those of df
overwrite(ss, title, columns, rows) ==
    [ ss EXCEPT ![worksheet(ss, title)].values =
        IF rows = <<>> THEN << <<NO_DATA>> >> ELSE <<columns>> \o rows ]

\* The test of read_all_enforcer_data with the per-enforcer report
\* worksheets let through
is_report_tab_global_only(title) == title \in REPORT_TABS

\* The test that leaves a worksheet out of read_all_enforcer_data
is_report_tab(title) ==
    \/ title \in REPORT_TABS
    \/ startswith(title, PREFIX_DAILY)
    \/ startswith(title, PREFIX_MONTHLY)

\* read_all_enforcer_data(): the records of every worksheet that is not a
\* report tab, in tab order, with Quantity, Date and Month derived
read_all_enforcer_data(ss) ==
    LET titles == SelectSeq([ i \in DOMAIN ss |-> ss[i].title ],
                            LAMBDA t : ~is_report_tab(t))
        raw    == concat_frames(ss, titles, <<>>)
    IN  [ i \in DOMAIN raw |->
            LET ts == to_datetime(raw[i].Date)
            IN  [ Date     |-> ts,
                  Enforcer |-> raw[i].Enforcer,
                  Category |-> raw[i].Category,
                  Activity |-> raw[i].Activity,
                  Quantity |-> to_quantity(raw[i].Quantity),
                  Remarks  |-> raw[i].Remarks,
                  Month    |-> strftime_Y_m(ts) ] ]

RECURSIVE union_columns(_, _)
\* The column labels of pd.concat(frames): those of the first frame, then
\* the labels that later frames add
union_columns(headers, acc) ==
    IF headers = <<>> THEN acc
    ELSE union_columns(Tail(headers),
             acc \o SelectSeq(Head(headers), LAMBDA h : h \notin Range(acc)))

\* df.columns before the derived columns: EXPECTED_HEADERS when no worksheet
\* gave records, and the first rows of the worksheets that gave records,
\* concatenated, otherwise
frame_columns(ss, titles) ==
    LET with_recs == SelectSeq(titles, LAMBDA t :
                         has_worksheet(ss, t)
                         /\ Len(ss[worksheet(ss, t)].values) > 1)
    IN  IF with_recs = <<>> THEN EXPECTED_HEADERS
        ELSE union_columns([ i \in DOMAIN with_recs |->
                               ss[worksheet(ss, with_recs[i])].values[1] ], <<>>)

\* The label of the column that load_all() of the Reports Dashboard derives
\* from Category
H_CategoryShort ==
    <<"C","a","t","e","g","o","r","y","S","h","o","r","t">>

\* df.columns of load_all() of pages/Reports Dashboard.py with the derived
\* columns left out of a table that has no rows
load_all_columns_underived(ss) == frame_columns(ss, ENFORCERS)

\* df.columns of load_all() of pages/Reports Dashboard.py: Month is added
\* when there is a Date column and CategoryShort when there is a Category
\* column, whether or not the table has rows
load_all_columns(ss) ==
    LET base == frame_columns(ss, ENFORCERS)
    IN  base \o (IF H_Date \in Range(base) THEN <<H_Month>> ELSE <<>>)
             \o (IF H_Category \in Range(base) THEN <<H_CategoryShort>> ELSE <<>>)

\* df.columns of load_all() of pages/Manager Dashboard.py: Month is added
\* when there is a Date column
manager_load_all_columns(ss) ==
    LET base == frame_columns(ss, ENFORCERS)
    IN  base \o (IF H_Date \in Range(base) THEN <<H_Month>> ELSE <<>>)

\* df.columns of read_all_enforcer_data(): the six columns when no worksheet
\* gave records (the function returns before it derives anything), and the
\* columns of the frames with Date and Month otherwise
read_all_enforcer_data_columns(ss) ==
    LET titles == SelectSeq([ i \in DOMAIN ss |-> ss[i].title ],
                            LAMBDA t : ~is_report_tab(t))
        base   == frame_columns(ss, titles)
    IN  IF concat_frames(ss, titles, <<>>) = <<>> THEN EXPECTED_HEADERS
        ELSE base \o SelectSeq(<<H_Date, H_Month>>, LAMBDA h : h \notin Range(base))

\* The order of two keys under sort_values(cols): column by column, dates
\* by time and text by code point
key_lt(cols, a, b) ==
    \E i \in DOMAIN cols :
        /\ \A j \in 1..(i - 1) : a[j] = b[j]
        /\ a[i] # b[i]
        /\ IF cols[i] = "Date" THEN a[i] < b[i] ELSE str_lt(a[i], b[i])

RECURSIVE sort_values(_, _)
\* .sort_values(cols) of a grouped frame: its keys in ascending order
sort_values(cols, keys) ==
    IF keys = {} THEN <<>>
    ELSE LET k    == CHOOSE x \in keys : TRUE
             rest == sort_values(cols, keys \ {k})
             pos  == Cardinality({ i \in DOMAIN rest : key_lt(cols, rest[i], k) })
         IN  SubSeq(rest, 1, pos) \o <<k>> \o SubSeq(rest, pos + 1, Len(rest))

\* The header text of a column
column_text(col) ==
    CASE col = "Date"     -> H_Date
      [] col = "Month"    -> H_Month
      [] col = "Enforcer" -> H_Enforcer
      [] col = "Category" -> H_Category
      [] col = "Activity" -> H_Activity

\* df.columns.tolist() of a report frame
report_columns(cols) ==
    [ j \in DOMAIN cols |-> column_text(cols[j]) ] \o <<H_Quantity>>

\* frame.groupby(cols, as_index=False)["Quantity"].sum().sort_values(cols),
\* the Date column formatted "%Y-%m-%d", every cell as text
report_rows(frame, cols) ==
    LET g  == groupby_sum(frame, cols)
        ks == sort_values(cols, DOMAIN g)
    IN  [ i \in DOMAIN ks |->
            [ j \in DOMAIN cols |->
                IF cols[j] = "Date" THEN strftime_Y_m_d(ks[i][j]) ELSE ks[i][j] ]
            \o <<str(g[ks[i]])>> ]

\* rebuild_global_reports()
rebuild_global_reports(ss) ==
    LET df         == read_all_enforcer_data(ss)
        created    == get_or_create_ws(get_or_create_ws(ss, DAILY_REPORT),
                                       MONTHLY_REPORT)
        daily_by   == <<"Date", "Enforcer", "Category", "Activity">>
        monthly_by == <<"Month", "Enforcer", "Category", "Activity">>
    IN  IF df = <<>>
        THEN overwrite(overwrite(created, DAILY_REPORT, <<>>, <<>>),
                       MONTHLY_REPORT, <<>>, <<>>)
        ELSE overwrite(
                 overwrite(created, DAILY_REPORT, report_columns(daily_by),
                           report_rows(df, daily_by)),
                 MONTHLY_REPORT, report_columns(monthly_by),
                 report_rows(df, monthly_by))

RECURSIVE rebuild_for_persons(_, _, _)
\* The loop of rebuild_per_enforcer_reports over the groups of df by Enforcer
rebuild_for_persons(ss, df, persons) ==
    IF persons = <<>> THEN ss
    ELSE LET person     == Head(persons)
             sub        == SelectSeq(df, LAMBDA r : r.Enforcer = person)
             dtitle     == PREFIX_DAILY \o person
             mtitle     == PREFIX_MONTHLY \o person
             daily_by   == <<"Date", "Category", "Activity">>
             monthly_by == <<"Month", "Category", "Activity">>
             created    == get_or_create_ws(get_or_create_ws(ss, dtitle), mtitle)
             written    == overwrite(
                               overwrite(created, dtitle, report_columns(daily_by),
                                         report_rows(sub, daily_by)),
                               mtitle, report_columns(monthly_by),
                               report_rows(sub, monthly_by))
         IN  rebuild_for_persons(written, df, Tail(persons))

\* rebuild_per_enforcer_reports(), PER_ENFORCER_REPORTS being True
rebuild_per_enforcer_reports(ss) ==
    LET df == read_all_enforcer_data(ss)
    IN  IF df = <<>> THEN ss
        ELSE rebuild_for_persons(ss, df,
                 sorted({ df[i].Enforcer : i \in DOMAIN df }))

\* The worksheet of the selected name, made and given its header row when it
\* has no cells
enforcer_ws(ss, name) ==
    LET made == get_or_create_ws(ss, name)
        i    == worksheet(made, name)
    IN  IF made[i].values = <<>>
        THEN [ made EXCEPT ![i].values = <<EXPECTED_HEADERS>> ]
        ELSE made

RECURSIVE to_append_from(_, _, _, _, _)
\* to_append: one row per activity, category by category; qty maps the
\* position of an activity among all activities to the number typed for it
to_append_from(today, name, qty, c, done) ==
    IF c > Len(categories) THEN <<>>
    ELSE [ a \in DOMAIN categories[c].acts |->
             <<today, name, categories[c].cat, categories[c].acts[a],
               str(qty[done + a]), <<>>>> ]
         \o to_append_from(today, name, qty, c + 1,
                           done + Len(categories[c].acts))

to_append(today, name, qty) == to_append_from(today, name, qty, 1, 0)

\* The number of activities of the taxonomy
ActivityCount ==
    Len(categories[1].acts) + Len(categories[2].acts)
    + Len(categories[3].acts) + Len(categories[4].acts)

----------------------------------------------------------------------------
(* The entry page (Monitoring Dashboard.py)                                *)

\* range(3) of get_client_and_sheet(): how many times the spreadsheet is
\* opened at most
OPEN_ATTEMPTS == 3

\* time.sleep(1.2), in tenths of a second
SLEEP_TENTHS == 12

\* get_client_and_sheet() not yet called: no attempt made, no wait
NotOpened ==
    [ calls |-> 1, results |-> <<>>, waits |-> 0, slept |-> 0,
      outcome |-> "pending" ]

\* An iteration of the loop of get_client_and_sheet() that sleeps after
\* every failed attempt and raises after the sleep
open_attempt_sleeps_always(o, ok) ==
    IF ok
    THEN [ o EXCEPT !.results = Append(@, "ok"), !.outcome = "returned" ]
    ELSE [ o EXCEPT !.results = Append(@, "error"),
                    !.waits   = @ + 1,
                    !.slept   = @ + SLEEP_TENTHS,
                    !.outcome = IF Len(o.results) = OPEN_ATTEMPTS - 1
                                THEN "raised" ELSE @ ]

\* Iteration i = Len(o.results) of the loop of get_client_and_sheet(): the
\* spreadsheet is opened; a success returns it, a failure is raised when
\* i == 2 and is followed by the sleep otherwise
open_attempt(o, ok) ==
    IF ok
    THEN [ o EXCEPT !.results = Append(@, "ok"), !.outcome = "returned" ]
    ELSE IF Len(o.results) = OPEN_ATTEMPTS - 1
         THEN [ o EXCEPT !.results = Append(@, "error"), !.outcome = "raised" ]
         ELSE [ o EXCEPT !.results = Append(@, "error"),
                         !.waits   = @ + 1,
                         !.slept   = @ + SLEEP_TENTHS ]

\* get_or_create_ws(title) of Monitoring Dashboard.py: a worksheet that is
\* added gets the header row
entry_get_or_create_ws(ss, title) ==
    IF has_worksheet(ss, title) THEN ss
    ELSE Append(ss, [ title |-> title, values |-> <<EXPECTED_HEADERS>> ])

\* ensure_headers(ws): the header row is appended to a worksheet with no
\* cells and inserted above the first row of a worksheet that begins with
\* another row
ensure_headers(ss, title) ==
    LET i      == worksheet(ss, title)
        values == ss[i].values
    IN  IF values = <<>>
        THEN [ ss EXCEPT ![i].values = <<EXPECTED_HEADERS>> ]
        ELSE IF values[1] # EXPECTED_HEADERS
             THEN [ ss EXCEPT ![i].values = <<EXPECTED_HEADERS>> \o @ ]
             ELSE ss

\* ws.append_rows(rows) on the first worksheet of the spreadsheet, whatever
\* the title
append_rows_to_first(ss, title, rows) ==
    [ ss EXCEPT ![1].values = @ \o rows ]

\* ws.append_rows(rows) writing the rows from the second row on, over the
\* rows that are there
append_rows_from_top(ss, title, rows) ==
    [ ss EXCEPT ![worksheet(ss, title)].values = <<EXPECTED_HEADERS>> \o rows ]

\* ws.append_rows(rows)
append_rows(ss, title, rows) ==
    [ ss EXCEPT ![worksheet(ss, title)].values = @ \o rows ]

\* The keys of st.session_state: the counter of an activity of a name, and
\* the number_input of that counter; k is the position of the activity
\* among all activities
counter_key(name, k) == <<name, k, "qty">>
num_widget_key(name, k) == <<name, k, "qty_num">>

\* st.session_state with no name selected and no key set
NoSessionState == [ name |-> <<>>, keys |-> [ x \in {} |-> 0 ] ]

\* st.session_state.get(k, default)
session_get(keys, k, default) == IF k \in DOMAIN keys THEN keys[k] ELSE default

\* st.session_state[k] = v
session_set(keys, k, v) ==
    [ x \in DOMAIN keys \cup {k} |-> IF x = k THEN v ELSE keys[x] ]

\* _dec(k) without the floor at 0
_dec_unfloored(keys, k) == session_set(keys, k, session_get(keys, k, 0) - 1)

\* _inc(k)
_inc(keys, k) == session_set(keys, k, session_get(keys, k, 0) + 1)

\* _dec(k)
_dec(keys, k) ==
    LET v == session_get(keys, k, 0) - 1
    IN  session_set(keys, k, IF v > 0 THEN v ELSE 0)

\* _sync(src_key, dest_key)
_sync(keys, src_key, dest_key) ==
    session_set(keys, dest_key, session_get(keys, src_key, 0))

\* The loop over the activities, its first statement: a counter that is not
\* in st.session_state is set to 0
init_counters(keys, name) ==
    LET fresh == { counter_key(name, k) : k \in 1..ActivityCount } \ DOMAIN keys
    IN  [ x \in DOMAIN keys \cup fresh |-> IF x \in fresh THEN 0 ELSE keys[x] ]

\* rows_to_save: one row per activity, its quantity the counter of the
\* activity in this pass
rows_to_save(keys, today, name) ==
    to_append(today, name,
              [ k \in 1..ActivityCount |-> keys[counter_key(name, k)] ])

\* No pass of the entry page script has run
NoEntry ==
    [ pass |-> "none", name |-> <<>>, found |-> "none", before |-> <<>>,
      rows_to_save |-> <<>>, saved |-> FALSE, fresh |-> FALSE, tries |-> 0 ]

\* How ws = get_or_create_ws(name) and ensure_headers(ws) find the
\* worksheet of the name
found_as(ss, name) ==
    IF ~has_worksheet(ss, name) THEN "missing"
    ELSE IF ss[worksheet(ss, name)].values = <<>> THEN "empty"
    ELSE IF ss[worksheet(ss, name)].values[1] # EXPECTED_HEADERS THEN "different"
    ELSE "header"

\* The rows of the worksheet of the name, none when there is no such
\* worksheet
values_of(ss, name) ==
    IF has_worksheet(ss, name) THEN ss[worksheet(ss, name)].values ELSE <<>>

\* One pass of the script with a name selected: the worksheet is opened and
\* its header checked, the counters are set, rows_to_save is built, and the
\* rows are appended when the save button was pressed
entry_pass(ss, keys, name, today, save) ==
    LET ready == ensure_headers(entry_get_or_create_ws(ss, name), name)
        keys1 == init_counters(keys, name)
        rows  == rows_to_save(keys1, today, name)
    IN  [ spreadsheet |-> IF save THEN append_rows(ready, name, rows) ELSE ready,
          keys        |-> keys1,
          entry       |-> [ pass         |-> "done",
                            name         |-> name,
                            found        |-> found_as(ss, name),
                            before       |-> values_of(ss, name),
                            rows_to_save |-> rows,
                            saved        |-> save,
                            fresh        |-> TRUE,
                            tries        |-> 0 ] ]

\* No session of dashboard.py is saving
NoSessions == <<>>

----------------------------------------------------------------------------
(* One pass of the Reports Dashboard script                                *)

\* The top enforcer shown when prod is empty (an em dash in the script)
NO_TOP == <<"-">>

\* Nothing rendered yet
IdlePage ==
    [ status        |-> "idle",
      df            |-> <<>>,
      view          |-> "",
      chosen        |-> {},
      today         |-> NaT,
      d1            |-> NaT,
      d2            |-> NaT,
      sel           |-> {},
      total         |-> 0,
      prev_start    |-> NaT,
      prev_end      |-> NaT,
      prev_block    |-> <<>>,
      total_prev    |-> 0,
      pct_change    |-> Undefined,
      change_badge  |-> FALSE,
      top_enforcer  |-> NO_TOP,
      top_actions   |-> 0,
      pct_active    |-> Quotient(0, 1),
      ytd_total     |-> 0,
      by_period     |-> <<>>,
      by_category   |-> <<>> ]

\* A pass that ended at st.stop() with an st.info message
StoppedPage(status, view, chosen, today, df) ==
    [ IdlePage EXCEPT !.status = status, !.view = view, !.df = df,
                      !.chosen = chosen, !.today = today ]

\* The KPI row and the charts of a pass that ran to the end: dfv is the
\* filtered view, top the row of prod that the sort put first
ShownPage(view, chosen, today, d1, d2, sel, df, dfv, total_prev, prev_block, top) ==
    LET selection == effective_selection(chosen)
        total     == sum_quantity(dfv)
        change    == percent_change(total, Number(total_prev))
    IN  [ status        |-> "shown",
          df            |-> df,
          view          |-> view,
          chosen        |-> chosen,
          today         |-> today,
          d1            |-> d1,
          d2            |-> d2,
          sel           |-> sel,
          total         |-> total,
          prev_start    |-> IF view = "Daily"
                            THEN daily_prev_window(d1, d2).start ELSE NaT,
          prev_end      |-> IF view = "Daily"
                            THEN daily_prev_window(d1, d2).end ELSE NaT,
          prev_block    |-> prev_block,
          total_prev    |-> total_prev,
          pct_change    |-> change,
          change_badge  |-> change # Undefined,
          top_enforcer  |-> top.Enforcer,
          top_actions   |-> top.Quantity,
          pct_active    |-> pct_active_of(dfv, selection),
          ytd_total     |-> ytd_total_of(df, selection, today),
          by_period     |-> IF view = "Daily"
                            THEN groupby_sum(dfv, <<"Date">>)
                            ELSE groupby_sum(dfv, <<"Month", "Enforcer">>),
          by_category   |-> groupby_sum(dfv, <<"Category", "CategoryShort">>) ]

\* dfv = df[df["Enforcer"].isin(effective_selection)] if not df.empty else df
selected_view(df, chosen) ==
    IF df # <<>> THEN isin_enforcer(df, effective_selection(chosen)) ELSE df

\* months = sorted(dfv["Month"].dropna().unique()), as a set
months_of(dfv) == { dfv[i].Month : i \in DOMAIN dfv } \ {NaN}

\* Streamlit reruns the script from the top on every interaction: what the
\* previous pass showed is dropped, and the pass that follows starts afresh
Rerun ==
    /\ page.status # "idle"
    /\ page' = IdlePage
    /\ UNCHANGED <<spreadsheet, canonVars, entryVars, sessions>>

\* The ends tried for the range of the date_input: it takes any days of
\* [min_d, max_d]; the ends tried are the days of it that have a row
date_range_ends(dfv) ==
    { d \in valid_dates(dfv) : min_date(dfv) <= d /\ d <= max_date(dfv) }

\* A pass with View = "Daily": the enforcer filter is chosen, the date range
\* of the date_input is [d1, d2] within [min_d, max_d].  (A value is bound
\* with \E x \in {e} where the script assigns a variable once.)
RenderDaily(selections, todays) ==
    /\ page.status = "idle"
    /\ \E df \in { load_all(spreadsheet) } :
        \E chosen \in selections, today \in todays :
          \E dfv0 \in { selected_view(df, chosen) } :
            /\ IF dfv0 = <<>>
               THEN page' = StoppedPage("no_data", "Daily", chosen, today, df)
               ELSE IF valid_dates(dfv0) = {}
               THEN page' = StoppedPage("no_valid_dates", "Daily", chosen, today, df)
               ELSE \E d1, d2 \in date_range_ends(dfv0) :
                      /\ d1 <= d2
                      /\ \E dfv \in { between_dates(dfv0, d1, d2) } :
                           IF dfv = <<>>
                           THEN page' = [ StoppedPage("no_data_in_range", "Daily",
                                                      chosen, today, df)
                                          EXCEPT !.d1 = d1, !.d2 = d2 ]
                           ELSE \E prod \in { prod_grouped(dfv) } :
                                  \E i \in sort_values_first(prod) :
                                    page' = ShownPage("Daily", chosen, today, d1, d2, {},
                                                df, dfv,
                                                daily_total_prev(df,
                                                    effective_selection(chosen), d1, d2),
                                                <<>>,
                                                prod[i])
            /\ UNCHANGED <<spreadsheet, canonVars, entryVars, sessions>>

\* A pass with View = "Monthly": sel is what the month multiselect holds
RenderMonthly(selections, todays) ==
    /\ page.status = "idle"
    /\ \E df \in { load_all(spreadsheet) } :
        \E chosen \in selections, today \in todays :
          \E dfv0 \in { selected_view(df, chosen) } :
            /\ IF dfv0 = <<>>
               THEN page' = StoppedPage("no_data", "Monthly", chosen, today, df)
               ELSE \E sel \in SUBSET months_of(dfv0) :
                      \E dfv \in { IF sel # {} THEN isin_month(dfv0, sel) ELSE dfv0 } :
                          IF dfv = <<>>
                          THEN page' = [ StoppedPage("no_data_for_months", "Monthly",
                                                     chosen, today, df)
                                         EXCEPT !.sel = sel ]
                          ELSE \E prod_m \in { prod_grouped(dfv) } :
                                 \E i \in sort_values_first(prod_m) :
                                   page' = ShownPage("Monthly", chosen, today, NaT, NaT, sel,
                                             df, dfv,
                                             monthly_total_prev(df,
                                                 effective_selection(chosen), sel),
                                             IF sel # {} THEN monthly_prev_block(sel)
                                                         ELSE <<>>,
                                             prod_m[i])
            /\ UNCHANGED <<spreadsheet, canonVars, entryVars, sessions>>

----------------------------------------------------------------------------
(* What the worksheets hold                                                *)

\* "I. Issuance Of  Citation  Tickets "
VARIANT_I ==
    <<"I","."," ","I","s","s","u","a","n","c","e"," ","O","f"," "," ","C","i","t","a","t","i","o","n"," "," ","T","i","c","k","e","t","s"," ">>

\* " I.  Issuance of Citation Tickets"
SPACED_I ==
    <<" ","I","."," "," ","I","s","s","u","a","n","c","e"," ","o","f"," ","C","i","t","a","t","i","o","n"," ","T","i","c","k","e","t","s">>

\* "Unregistered Chainsaw"
ACT_CHAINSAW ==
    <<"U","n","r","e","g","i","s","t","e","r","e","d"," ","C","h","a","i","n","s","a","w">>

\* "2023-12-31"
DATE_2023_12_31 ==
    <<"2","0","2","3","-","1","2","-","3","1">>

\* "2024-01-01"
DATE_2024_01_01 ==
    <<"2","0","2","4","-","0","1","-","0","1">>

\* "2024-03-01"
DATE_2024_03_01 ==
    <<"2","0","2","4","-","0","3","-","0","1">>

\* "2025-01-01"
DATE_2025_01_01 ==
    <<"2","0","2","5","-","0","1","-","0","1">>

\* "2024-05-01"
DATE_2024_05_01 ==
    <<"2","0","2","4","-","0","5","-","0","1">>

\* "n/a"
DATE_UNPARSEABLE ==
    <<"n","/","a">>

\* How many data rows the spreadsheet holds in the KPI runs
MaxRows == 2

\* How many data rows the spreadsheet holds in the category-merge runs
MaxMergeRows == 3

\* The number of data rows (rows under a header) of the whole spreadsheet
RECURSIVE data_rows(_)
data_rows(ss) ==
    IF ss = <<>> THEN 0
    ELSE (IF Len(Head(ss).values) > 0 THEN Len(Head(ss).values) - 1 ELSE 0)
           + data_rows(Tail(ss))

\* A row of a worksheet: [today, name, cat, act, qty, remark]
Row(date, name, cat, act, qty, remark) == <<date, name, cat, act, qty, remark>>

\* Rows for the KPI runs: days on both sides of a year's end, a day in March
\* and a date that does not parse, two enforcers, quantities 10 and 20
KpiRows ==
    { Row(d, e, CANON_I, ACT_CHAINSAW, str(q), <<>>) :
        d \in {DATE_2023_12_31, DATE_2024_01_01, DATE_2024_03_01, DATE_UNPARSEABLE},
        e \in {ENFORCER_1, ENFORCER_2},
        q \in {10, 20} }

\* Rows for the category-merge runs: one day, the official first category
\* and stored variants of it, quantities 2, 3 and 5
MergeRows ==
    { Row(DATE_2024_05_01, ENFORCER_1, c, ACT_CHAINSAW, str(q), <<>>) :
        c \in {CANON_I, VARIANT_I, SPACED_I},
        q \in {2, 3, 5} }

\* The enforcer filters tried
Selections ==
    { {}, {ENFORCER_1}, {ENFORCER_2}, {ENFORCER_1, ENFORCER_2},
      {ENFORCER_2, ENFORCER_3}, Range(ENFORCERS) }

\* date.today() of a pass
Todays == { to_datetime(DATE_2024_03_01), to_datetime(DATE_2025_01_01) }

\* A row reaches the worksheet named after its enforcer: the worksheet is
\* created with the header row when missing (get_or_create_ws), then the row
\* is appended (append_rows).  The cells of a row are what the entry page
\* wrote or what was typed over them in the sheet since, which is how a date
\* that does not parse or a label in another spelling comes to be there.
\* The dashboard's next pass starts afresh.
StoreAppend(row) ==
    /\ IF has_worksheet(spreadsheet, row[2])
       THEN LET i == worksheet(spreadsheet, row[2])
            IN  spreadsheet' =
                  [ spreadsheet EXCEPT ![i].values = Append(@, row) ]
       ELSE spreadsheet' =
              Append(spreadsheet,
                     [ title |-> row[2], values |-> <<EXPECTED_HEADERS, row>> ])
    /\ page' = IdlePage
    /\ UNCHANGED <<canonVars, entryVars, sessions>>

InitReports ==
    /\ spreadsheet = <<>>
    /\ page = IdlePage
    /\ label = <<>>
    /\ canonOut = <<>>
    /\ canonRan = FALSE
    /\ session_state = NoSessionState
    /\ entry = NoEntry
    /\ opening = NotOpened
    /\ sessions = NoSessions

NextReports ==
    \/ \E row \in KpiRows : data_rows(spreadsheet) < MaxRows /\ StoreAppend(row)
    \/ Rerun
    \/ RenderDaily(Selections, Todays)
    \/ RenderMonthly(Selections, Todays)

\* The Reports Dashboard over worksheets of KPI rows
SpecReports == InitReports /\ [][NextReports]_vars

NextMerge ==
    \/ \E row \in MergeRows : data_rows(spreadsheet) < MaxMergeRows /\ StoreAppend(row)
    \/ Rerun
    \/ RenderDaily({{}}, Todays)
    \/ RenderMonthly({{}}, Todays)

\* The Reports Dashboard over worksheets of category variants
SpecMerge == InitReports /\ [][NextMerge]_vars

----------------------------------------------------------------------------
(* The Reports Dashboard over worksheets whose Quantity cells were typed   *)
(* over in the sheet                                                       *)

\* How many data rows the spreadsheet holds in the quantity-cell runs
MaxLoadRows == 2

\* "abc"
QTY_TEXT ==
    <<"a","b","c">>

\* "-5"
QTY_NEGATIVE ==
    <<"-","5">>

\* Rows of one day whose Quantity cell holds a count, a negative number,
\* nothing, or text
LoadRows ==
    { Row(DATE_2024_05_01, e, CANON_I, ACT_CHAINSAW, q, <<>>) :
        e \in {ENFORCER_1, ENFORCER_2},
        q \in {str(7), QTY_NEGATIVE, <<>>, QTY_TEXT} }

NextLoad ==
    \/ \E row \in LoadRows : data_rows(spreadsheet) < MaxLoadRows /\ StoreAppend(row)
    \/ Rerun
    \/ RenderDaily({{}, {ENFORCER_2}}, Todays)
    \/ RenderMonthly({{}, {ENFORCER_2}}, Todays)

\* The Reports Dashboard over worksheets of edited Quantity cells
SpecLoad == InitReports /\ [][NextLoad]_vars

----------------------------------------------------------------------------
(* dashboard.py over a spreadsheet that is also edited by hand             *)

\* At most this many saves, and this many date cells edited by hand
MaxSaves == 2
MaxEdits == 1

\* The numbers typed into the number_inputs of a pass: none, or one count
\* for one activity
NoCounts == [ k \in 1..ActivityCount |-> 0 ]
QtyChoices ==
    { NoCounts, [ NoCounts EXCEPT ![2] = 3 ], [ NoCounts EXCEPT ![10] = 5 ] }

\* The rows of the worksheets that are not report tabs
entry_rows(ss) ==
    concat_frames(ss, SelectSeq([ i \in DOMAIN ss |-> ss[i].title ],
                                LAMBDA t : ~is_report_tab(t)), <<>>)

\* Whether read_all_enforcer_data() raises KeyError at df["Date"]: there are
\* records, and no worksheet that has records names a Date column
read_raises(ss) ==
    /\ entry_rows(ss) # <<>>
    /\ \A i \in DOMAIN ss :
         (~is_report_tab(ss[i].title) /\ Len(ss[i].values) > 1)
            => column_of(ss[i].values[1], H_Date) = 0

\* What a pass of dashboard.py did: how it found the worksheet of the name,
\* the rows the worksheet had, to_append, and whether it was saved
dash_entry(ss, name, rows, save) ==
    [ pass         |-> "done",
      name         |-> name,
      found        |-> found_as(ss, name),
      before       |-> values_of(ss, name),
      rows_to_save |-> rows,
      saved        |-> save,
      fresh        |-> TRUE,
      tries        |-> 0 ]

\* A pass of dashboard.py with a name selected and the save button not
\* pressed: the worksheet of the name is made ready; the manager section
\* then reads the worksheets and writes nothing
DashOpen(name) ==
    /\ spreadsheet' = enforcer_ws(spreadsheet, name)
    /\ UNCHANGED <<page, canonVars, session_state, opening, sessions>>

\* A pass of dashboard.py with the save button pressed: the rows are appended
\* to the worksheet of the name, then the global and the per-enforcer report
\* worksheets are rebuilt; a KeyError of the read ends the pass after the
\* append
DashSave(name, today, qty) ==
    /\ \E ready \in { enforcer_ws(spreadsheet, name) } :
         \E saved \in { append_rows(ready, name, to_append(today, name, qty)) } :
           spreadsheet' =
             IF read_raises(saved) THEN saved
             ELSE rebuild_per_enforcer_reports(rebuild_global_reports(saved))
    /\ UNCHANGED <<page, canonVars, session_state, opening, sessions>>

\* The spreadsheet is a Google Sheet that its owners also open in the
\* browser: a Date cell of a counted row is overwritten with text that is
\* not a date
SheetEdit(i, r) ==
    /\ ~is_report_tab(spreadsheet[i].title)
    /\ spreadsheet[i].values[r][5] # str(0)
    /\ spreadsheet[i].values[r][1] # DATE_UNPARSEABLE
    /\ Cardinality({ c \in { <<j, q>> : j \in DOMAIN spreadsheet, q \in 1..(MaxSaves * ActivityCount + 2) } :
                       /\ c[2] \in DOMAIN spreadsheet[c[1]].values
                       /\ ~is_report_tab(spreadsheet[c[1]].title)
                       /\ spreadsheet[c[1]].values[c[2]][1] = DATE_UNPARSEABLE }) < MaxEdits
    /\ spreadsheet' = [ spreadsheet EXCEPT ![i].values[r][1] = DATE_UNPARSEABLE ]
    /\ entry' = [ entry EXCEPT !.fresh = FALSE ]
    /\ UNCHANGED <<page, canonVars, session_state, opening, sessions>>

\* What a hand edit leaves in the first cell of a header row
H_Day ==
    <<"D","a","y">>

\* The spreadsheet is a Google Sheet that its owners also open in the
\* browser: the first cell of a header row is overwritten
HeaderEdit(i) ==
    /\ ~is_report_tab(spreadsheet[i].title)
    /\ spreadsheet[i].values # <<>>
    /\ spreadsheet[i].values[1] = EXPECTED_HEADERS
    /\ \A j \in DOMAIN spreadsheet :
         \A r \in DOMAIN spreadsheet[j].values : spreadsheet[j].values[r][1] # H_Day
    /\ spreadsheet' = [ spreadsheet EXCEPT ![i].values[1][1] = H_Day ]
    /\ entry' = [ entry EXCEPT !.fresh = FALSE ]
    /\ UNCHANGED <<page, canonVars, session_state, opening, sessions>>

\* How many rows the worksheets of the enforcers hold, as a number of saves
saves_stored(ss) == Len(entry_rows(ss)) \div ActivityCount

NextDash ==
    \/ \E name \in {ENFORCER_1, ENFORCER_2} :
         DashOpen(name) /\ UNCHANGED entry
    \/ \E name \in {ENFORCER_1, ENFORCER_2},
          today \in {DATE_2024_05_01},
          qty \in QtyChoices :
         /\ saves_stored(spreadsheet) < MaxSaves
         /\ DashSave(name, today, qty)
         /\ UNCHANGED entry
    \/ \E i \in DOMAIN spreadsheet :
         \E r \in 2..Len(spreadsheet[i].values) : SheetEdit(i, r)

\* dashboard.py: saves, rebuilds and edits by hand
SpecDash == InitReports /\ [][NextDash]_vars

\* How many saves are made around the hand edit of a header row
MaxHeaderSaves == 1

NextHeader ==
    \/ \E name \in {ENFORCER_1, ENFORCER_2}, today \in {DATE_2024_05_01} :
         /\ DashOpen(name)
         /\ entry' = dash_entry(spreadsheet, name,
                                to_append(today, name, NoCounts), FALSE)
    \/ \E name \in {ENFORCER_1, ENFORCER_2},
          today \in {DATE_2024_05_01},
          qty \in {[ NoCounts EXCEPT ![2] = 3 ]} :
         /\ saves_stored(spreadsheet) < MaxHeaderSaves
         /\ DashSave(name, today, qty)
         /\ entry' = dash_entry(spreadsheet, name,
                                to_append(today, name, qty), TRUE)
    \/ \E i \in DOMAIN spreadsheet : HeaderEdit(i)

\* dashboard.py: passes and saves of its entry section around the hand edit
\* of a header row
SpecHeader == InitReports /\ [][NextHeader]_vars

----------------------------------------------------------------------------
(* The entry page: its session, the opening of the spreadsheet, saves      *)

\* The largest value a counter is clicked up to
MaxCount == 1

\* How many saves the entry page makes
MaxEntrySaves == 1

\* How many times get_client_and_sheet() is called
MaxOpenCalls == 2

\* The names selected, the activity whose buttons are clicked (by position),
\* the numbers typed into its number_input, and the days of the passes
EntryNames == {ENFORCER_1}
ClickActs == {2}
EditValues == {0, MaxCount}
EntryTodays == {DATE_2024_05_01}

\* One attempt of get_client_and_sheet() to open the spreadsheet, which the
\* service lets succeed or fail
OpenAttempt(ok) ==
    /\ opening.outcome = "pending"
    /\ opening' = open_attempt(opening, ok)
    /\ UNCHANGED <<spreadsheet, page, canonVars, session_state, entry, sessions>>

\* The script is run again after get_client_and_sheet() raised: a raised
\* call is not cached, so the function is called anew
OpenAgain ==
    /\ opening.outcome = "raised"
    /\ opening.calls < MaxOpenCalls
    /\ opening' = [ NotOpened EXCEPT !.calls = opening.calls + 1 ]
    /\ UNCHANGED <<spreadsheet, page, canonVars, session_state, entry, sessions>>

\* A pass of the script, with the name selected, over the keys that the
\* callback of the event left
RunPass(keys, name, save) ==
    \E today \in EntryTodays :
      \E r \in { entry_pass(spreadsheet, keys, name, today, save) } :
        /\ spreadsheet' = r.spreadsheet
        /\ session_state' = [ name |-> name, keys |-> r.keys ]
        /\ entry' = r.entry
        /\ UNCHANGED <<page, canonVars, opening, sessions>>

\* Whether the last pass showed the counters of the selected name
Rendered ==
    /\ opening.outcome = "returned"
    /\ session_state.name # <<>>
    /\ entry.pass = "done"

\* The selectbox is set to another name; with the blank name the script
\* stops before it opens a worksheet
SelectName(name) ==
    /\ opening.outcome = "returned"
    /\ name # session_state.name
    /\ IF name = <<>>
       THEN /\ session_state' = [ session_state EXCEPT !.name = <<>> ]
            /\ entry' = [ NoEntry EXCEPT !.pass = "stopped" ]
            /\ UNCHANGED <<spreadsheet, page, canonVars, opening, sessions>>
       ELSE RunPass(session_state.keys, name, FALSE)

\* The "+" button of an activity: on_click=_inc, then the pass
ClickPlus(k) ==
    /\ Rendered
    /\ session_state.keys[counter_key(session_state.name, k)] < MaxCount
    /\ RunPass(_inc(session_state.keys, counter_key(session_state.name, k)),
               session_state.name, FALSE)

\* The "-" button of an activity: on_click=_dec, then the pass
ClickMinus(k) ==
    /\ Rendered
    /\ RunPass(_dec(session_state.keys, counter_key(session_state.name, k)),
               session_state.name, FALSE)

\* A number typed into the number_input of an activity; min_value=0 lets no
\* number below 0 in.  on_change=_sync, then the pass
EditNumber(k, v) ==
    /\ Rendered
    /\ LET num == num_widget_key(session_state.name, k)
       IN  RunPass(_sync(session_set(session_state.keys, num, v), num,
                         counter_key(session_state.name, k)),
                   session_state.name, FALSE)

\* The save button: the pass appends rows_to_save
ClickSave ==
    /\ Rendered
    /\ RunPass(session_state.keys, session_state.name, TRUE)

\* The script is run again with nothing changed
EntryRerun ==
    /\ opening.outcome = "returned"
    /\ session_state.name # <<>>
    /\ RunPass(session_state.keys, session_state.name, FALSE)

\* A pass, with the name selected, in which a call to the service raises:
\* spreadsheet.worksheet(name) with an error other than WorksheetNotFound,
\* or the append_row of get_or_create_ws after the worksheet was added.  No
\* call is tried again: the exception ends the pass
EntryFails(name, at) ==
    /\ opening.outcome = "returned"
    /\ name # <<>>
    /\ at = "append_row" => ~has_worksheet(spreadsheet, name)
    /\ spreadsheet' =
         IF at = "append_row"
         THEN Append(spreadsheet, [ title |-> name, values |-> <<>> ])
         ELSE spreadsheet
    /\ session_state' = [ session_state EXCEPT !.name = name ]
    /\ entry' = [ NoEntry EXCEPT !.pass = "raised", !.name = name,
                                 !.tries = 1, !.fresh = TRUE,
                                 !.found = found_as(spreadsheet, name),
                                 !.before = values_of(spreadsheet, name) ]
    /\ UNCHANGED <<page, canonVars, opening, sessions>>

NextEntry ==
    \/ \E ok \in BOOLEAN : OpenAttempt(ok)
    \/ OpenAgain
    \/ \E name \in EntryNames \cup {<<>>} : SelectName(name)
    \/ \E k \in ClickActs : ClickPlus(k)
    \/ \E k \in ClickActs : ClickMinus(k)
    \/ \E k \in ClickActs, v \in EditValues : EditNumber(k, v)
    \/ saves_stored(spreadsheet) < MaxEntrySaves /\ ClickSave
    \/ EntryRerun
    \/ \E name \in EntryNames, at \in {"worksheet", "append_row"} :
         EntryFails(name, at)
    \/ \E i \in DOMAIN spreadsheet : HeaderEdit(i)

\* Monitoring Dashboard.py: the opening of the spreadsheet, then the passes
\* of one session, with failing calls and a hand edit of a header row
SpecEntry == InitReports /\ [][NextEntry]_vars

----------------------------------------------------------------------------
(* The two entry pages and the Reports Dashboard over one spreadsheet      *)

\* How many saves the two entry pages make together
MaxLogSaves == 2

NextLog ==
    \/ OpenAttempt(TRUE)
    \/ \E name \in EntryNames \cup {<<>>} : SelectName(name)
    \/ \E k \in ClickActs : ClickPlus(k)
    \/ saves_stored(spreadsheet) < MaxLogSaves /\ ClickSave
    \/ \E name \in {ENFORCER_1, ENFORCER_2},
          today \in {DATE_2024_05_01},
          qty \in {[ NoCounts EXCEPT ![2] = 3 ]} :
         /\ saves_stored(spreadsheet) < MaxLogSaves
         /\ DashSave(name, today, qty)
         /\ UNCHANGED entry
    \/ Rerun
    \/ RenderDaily({{}}, {to_datetime(DATE_2024_05_01)})

\* Saves of Monitoring Dashboard.py and of dashboard.py, the rebuilds that
\* follow the saves of dashboard.py, and passes of the Reports Dashboard
SpecLog == InitReports /\ [][NextLog]_vars

----------------------------------------------------------------------------
(* Worksheets without data rows under the dashboards                       *)

\* How many data rows are stored among the worksheets without data rows
MaxEmptyRows == 1

NextEmpty ==
    \/ OpenAttempt(TRUE)
    \/ \E name \in {ENFORCER_1, <<>>} : SelectName(name)
    \/ \E name \in {ENFORCER_2} : EntryFails(name, "append_row")
    \/ \E name \in {ENFORCER_2, ENFORCER_3} :
         DashOpen(name) /\ UNCHANGED entry
    \/ \E row \in { r \in KpiRows : r[1] = DATE_2024_03_01 } :
         data_rows(spreadsheet) < MaxEmptyRows /\ StoreAppend(row)
    \/ Rerun
    \/ RenderDaily({{}}, {to_datetime(DATE_2024_03_01)})
    \/ RenderMonthly({{}}, {to_datetime(DATE_2024_03_01)})

\* The entry pages make worksheets that hold no data row (a header row, or
\* no cell when the pass failed), and the Reports Dashboard is opened
SpecEmpty == InitReports /\ [][NextEmpty]_vars

----------------------------------------------------------------------------
(* Sessions that save at the same time                                     *)

\* How many sessions there are, and how many saves each makes
MaxSessions == 2
MaxRaceSaves == 1

\* The counts a session saves, and the day of its pass
RaceQty == [ NoCounts EXCEPT ![2] = 3 ]
RaceToday == DATE_2024_05_01

\* ws.clear()
ws_clear(ss, title) == [ ss EXCEPT ![worksheet(ss, title)].values = <<>> ]

\* ws.update(range, rows), the range starting in column A of row at: the
\* cells of the rows are written, every other cell stays as it is (a row
\* with no cell written is <<>>)
ws_update(ss, title, at, rows) ==
    LET old        == ss[worksheet(ss, title)].values
        last       == IF Len(old) > at - 1 + Len(rows) THEN Len(old)
                      ELSE at - 1 + Len(rows)
        old_row(r) == IF r <= Len(old) THEN old[r] ELSE <<>>
    IN  [ ss EXCEPT ![worksheet(ss, title)].values =
            [ r \in 1..last |->
                IF r >= at /\ r < at + Len(rows)
                THEN rows[r - at + 1]
                       \o SubSeq(old_row(r), Len(rows[r - at + 1]) + 1, Len(old_row(r)))
                ELSE old_row(r) ] ]

\* A report frame that is not computed yet
NoFrame == [ columns |-> <<>>, rows |-> <<>> ]

\* What overwrite(ws, df) leaves in a worksheet when nothing else writes
written_by(frame) ==
    IF frame.rows = <<>> THEN << <<NO_DATA>> >>
    ELSE <<frame.columns>> \o frame.rows

\* A browser session opens an entry page and selects a name that no other
\* session has: the first pass makes the worksheet of the name ready
SessionStart(script, name) ==
    /\ Len(sessions) < MaxSessions
    /\ \A s \in DOMAIN sessions : sessions[s].name # name
    /\ script = "monitoring" => opening.outcome = "returned"
    /\ spreadsheet' =
         IF script = "dashboard" THEN enforcer_ws(spreadsheet, name)
         ELSE ensure_headers(entry_get_or_create_ws(spreadsheet, name), name)
    /\ sessions' = Append(sessions,
                     [ script |-> script, name |-> name, pc |-> "ready",
                       saves |-> 0, appended |-> <<>>,
                       daily |-> NoFrame, monthly |-> NoFrame ])
    /\ UNCHANGED <<page, canonVars, entryVars>>

\* The save button of session s: ws.append_rows(...).  The pass of
\* Monitoring Dashboard.py ends here; dashboard.py goes on to rebuild
RaceAppend(s) ==
    /\ sessions[s].pc = "ready"
    /\ sessions[s].saves < MaxRaceSaves
    /\ \E rows \in { to_append(RaceToday, sessions[s].name, RaceQty) } :
         /\ spreadsheet' = append_rows(spreadsheet, sessions[s].name, rows)
         /\ sessions' =
              [ sessions EXCEPT
                  ![s].appended = @ \o rows,
                  ![s].pc = IF sessions[s].script = "dashboard"
                            THEN "appended" ELSE "ready",
                  ![s].saves = IF sessions[s].script = "dashboard"
                               THEN @ ELSE @ + 1 ]
    /\ UNCHANGED <<page, canonVars, entryVars>>

\* rebuild_global_reports() of session s, up to its first overwrite: the
\* worksheets are read, the two report worksheets are fetched or added, and
\* the daily and the monthly frame are computed from what was read
RaceRead(s) ==
    /\ sessions[s].pc = "appended"
    /\ \E df \in { read_all_enforcer_data(spreadsheet) } :
         LET daily_by   == <<"Date", "Enforcer", "Category", "Activity">>
             monthly_by == <<"Month", "Enforcer", "Category", "Activity">>
         IN  sessions' =
               [ sessions EXCEPT
                   ![s].pc = "read",
                   ![s].daily = IF df = <<>> THEN NoFrame
                                ELSE [ columns |-> report_columns(daily_by),
                                       rows    |-> report_rows(df, daily_by) ],
                   ![s].monthly = IF df = <<>> THEN NoFrame
                                  ELSE [ columns |-> report_columns(monthly_by),
                                         rows    |-> report_rows(df, monthly_by) ] ]
    /\ spreadsheet' = get_or_create_ws(get_or_create_ws(spreadsheet, DAILY_REPORT),
                                       MONTHLY_REPORT)
    /\ UNCHANGED <<page, canonVars, entryVars>>

\* overwrite(ws, df) of session s, its first call: ws.clear()
RaceClear(s) ==
    /\ sessions[s].pc \in {"read", "daily_written"}
    /\ spreadsheet' = ws_clear(spreadsheet, IF sessions[s].pc = "read"
                                            THEN DAILY_REPORT ELSE MONTHLY_REPORT)
    /\ sessions' = [ sessions EXCEPT ![s].pc = IF @ = "read" THEN "daily_cleared"
                                               ELSE "monthly_cleared" ]
    /\ UNCHANGED <<page, canonVars, entryVars>>

\* overwrite(ws, df) of session s, its second call: ws.update("A1", ...)
\* with "No data", which ends overwrite, or with the column labels
RaceHeader(s) ==
    /\ sessions[s].pc \in {"daily_cleared", "monthly_cleared"}
    /\ LET is_daily == sessions[s].pc = "daily_cleared"
           title    == IF is_daily THEN DAILY_REPORT ELSE MONTHLY_REPORT
           frame    == IF is_daily THEN sessions[s].daily ELSE sessions[s].monthly
       IN  IF frame.rows = <<>>
           THEN /\ spreadsheet' = ws_update(spreadsheet, title, 1, << <<NO_DATA>> >>)
                /\ sessions' = [ sessions EXCEPT ![s].pc =
                                   IF is_daily THEN "daily_written"
                                   ELSE "monthly_written" ]
           ELSE /\ spreadsheet' = ws_update(spreadsheet, title, 1, <<frame.columns>>)
                /\ sessions' = [ sessions EXCEPT ![s].pc =
                                   IF is_daily THEN "daily_header"
                                   ELSE "monthly_header" ]
    /\ UNCHANGED <<page, canonVars, entryVars>>

\* overwrite(ws, df) of session s, its third call: ws.update("A2", ...)
RaceData(s) ==
    /\ sessions[s].pc \in {"daily_header", "monthly_header"}
    /\ LET is_daily == sessions[s].pc = "daily_header"
           title    == IF is_daily THEN DAILY_REPORT ELSE MONTHLY_REPORT
           frame    == IF is_daily THEN sessions[s].daily ELSE sessions[s].monthly
       IN  /\ spreadsheet' = ws_update(spreadsheet, title, 2, frame.rows)
           /\ sessions' = [ sessions EXCEPT ![s].pc =
                              IF is_daily THEN "daily_written"
                              ELSE "monthly_written" ]
    /\ UNCHANGED <<page, canonVars, entryVars>>

\* rebuild_per_enforcer_reports() of session s, which ends the save
RacePerEnforcer(s) ==
    /\ sessions[s].pc = "monthly_written"
    /\ spreadsheet' = rebuild_per_enforcer_reports(spreadsheet)
    /\ sessions' = [ sessions EXCEPT ![s].pc = "ready", ![s].saves = @ + 1 ]
    /\ UNCHANGED <<page, canonVars, entryVars>>

NextRace ==
    \/ OpenAttempt(TRUE)
    \/ \E script \in {"dashboard", "monitoring"},
          name \in {ENFORCER_1, ENFORCER_2} : SessionStart(script, name)
    \/ \E s \in DOMAIN sessions : RaceAppend(s)
    \/ \E s \in DOMAIN sessions : RaceRead(s)
    \/ \E s \in DOMAIN sessions : RaceClear(s)
    \/ \E s \in DOMAIN sessions : RaceHeader(s)
    \/ \E s \in DOMAIN sessions : RaceData(s)
    \/ \E s \in DOMAIN sessions : RacePerEnforcer(s)

\* Sessions of different enforcers that save at the same time, the calls of
\* each save interleaved with the calls of the other
SpecRace == InitReports /\ [][NextRace]_vars

----------------------------------------------------------------------------
(* Labels handed to the canonicalizer                                      *)

\* How many pieces a label is put together from
MaxPieces == 3

\* The pieces: whitespace (a double space, a tab), letters that break or
\* extend a prefix, the parts of the "II." prefix, and whole prefixes.
Pieces ==
    { <<" ", " ">>, <<"\t">>, <<"x">>, <<"I">>,
      P_II_DOT, P_SURVEILLANCE,
      PREFIX_III, PREFIX_I, PREFIX_IV, P_TASKS }

RECURSIVE LabelsUpTo(_)
LabelsUpTo(n) ==
    IF n = 0 THEN { <<>> }
    ELSE LET shorter == LabelsUpTo(n - 1)
         IN  shorter \cup { l \o p : l \in shorter, p \in Pieces }

InitCanon ==
    /\ label \in LabelsUpTo(MaxPieces)
    /\ canonOut = <<>>
    /\ canonRan = FALSE
    /\ spreadsheet = <<>>
    /\ page = IdlePage
    /\ session_state = NoSessionState
    /\ entry = NoEntry
    /\ opening = NotOpened
    /\ sessions = NoSessions

\* df["Category"].apply(canonicalize_category), for one cell
Canonicalize ==
    /\ ~canonRan
    /\ canonOut' = canonicalize_category(label)
    /\ canonRan' = TRUE
    /\ UNCHANGED <<label, spreadsheet, page, entryVars, sessions>>

NextCanon == Canonicalize

SpecCanon == InitCanon /\ [][NextCanon]_vars

\* The Reports Dashboard is the specification by default
Spec == SpecReports

----------------------------------------------------------------------------
(* Properties                                                              *)

\* C1: canonicalize_category is idempotent: canonicalizing what it returned
\* gives the same label again, for a label that matched one of the four
\* prefixes and for a label that fell through.
C1_Idempotent ==
    canonRan => canonicalize_category(canonOut) = canonOut

\* A label with a letter after the "IV. Other" prefix was canonicalized to the
\* fourth category
C1_Witness ==
    /\ canonRan
    /\ label = PREFIX_IV \o <<"x">>
    /\ canonOut = CANON_IV

\* C2: a label that starts with one of the four prefixes once it is trimmed
\* and its whitespace runs are collapsed to single spaces is returned as the
\* canonical string of that category, whatever whitespace it had; a label
\* that matches no prefix is returned trimmed and collapsed.
C2_PrefixStable ==
    canonRan =>
        LET n == join(<<" ">>, split(strip(label)))
        IN  /\ startswith(n, PREFIX_II) => canonOut = CANON_II
            /\ startswith(n, PREFIX_III) => canonOut = CANON_III
            /\ startswith(n, PREFIX_I) => canonOut = CANON_I
            /\ startswith(n, PREFIX_IV) => canonOut = CANON_IV
            /\ ( ~startswith(n, PREFIX_II) /\ ~startswith(n, PREFIX_III)
                 /\ ~startswith(n, PREFIX_I) /\ ~startswith(n, PREFIX_IV) )
               => canonOut = n

\* "II.", a double space and "Surveillance" were canonicalized to the second
\* category
C2_Witness ==
    /\ canonRan
    /\ label = P_II_DOT \o <<" ", " ">> \o P_SURVEILLANCE
    /\ canonOut = CANON_II

----------------------------------------------------------------------------
(* The figures of a pass, recomputed from the base table it loaded         *)

\* The enforcers the pass filters on
Eff == IF page.chosen = {} THEN Range(ENFORCERS) ELSE page.chosen

\* The rows of the base table inside the filtered window of the pass
ViewIdx ==
    { i \in DOMAIN page.df :
        /\ page.df[i].Enforcer \in Eff
        /\ IF page.view = "Daily"
           THEN /\ page.df[i].Date # NaT
                /\ page.d1 <= page.df[i].Date
                /\ page.df[i].Date <= page.d2
           ELSE page.sel = {} \/ page.df[i].Month \in page.sel }

\* The rows of the base table inside the preceding window of the pass
PrevIdx ==
    { i \in DOMAIN page.df :
        /\ page.df[i].Enforcer \in Eff
        /\ IF page.view = "Daily"
           THEN /\ page.df[i].Date # NaT
                /\ page.d1 - ((page.d2 - page.d1) + 1) <= page.df[i].Date
                /\ page.df[i].Date <= page.d1 - 1
           ELSE page.df[i].Month \in Range(page.prev_block) }

RECURSIVE QuantityOver(_, _)
\* The sum of Quantity over the rows idx of a frame
QuantityOver(frame, idx) ==
    IF idx = {} THEN 0
    ELSE LET i == CHOOSE j \in idx : TRUE
         IN  frame[i].Quantity + QuantityOver(frame, idx \ {i})

\* The sum of Quantity of one enforcer inside the filtered window
EnforcerTotal(e) ==
    QuantityOver(page.df, { i \in ViewIdx : page.df[i].Enforcer = e })

\* The enforcers that have a row inside the filtered window
Present == { page.df[i].Enforcer : i \in ViewIdx }

\* A month label "YYYY-MM" and the number of its month, counted from year 0
IsMonthLabel(l) ==
    /\ Len(l) = 7
    /\ \A i \in {1, 2, 3, 4, 6, 7} : IsDigit(l[i])
    /\ l[5] = "-"
    /\ 10 * DigitValue(l[6]) + DigitValue(l[7]) \in 1..12

MonthNumber(l) ==
    12 * (1000 * DigitValue(l[1]) + 100 * DigitValue(l[2])
          + 10 * DigitValue(l[3]) + DigitValue(l[4]))
    + (10 * DigitValue(l[6]) + DigitValue(l[7])) - 1

----------------------------------------------------------------------------
(* C5 .. C10: the KPI row of the Reports Dashboard                         *)

\* C5: percent_change is undefined when the previous value is 0, None or
\* NaN, whatever the current value; and a pass whose preceding window holds
\* no row shows a previous total of 0, an undefined change and no badge.
C5_UndefinedChange ==
    /\ \A curr \in {0 - 20, 0, 10, 20} :
         \A prev \in {Number(0), None, NaNValue} :
           percent_change(curr, prev) = Undefined
    /\ (page.status = "shown" /\ PrevIdx = {}) =>
         /\ page.total_prev = 0
         /\ page.pct_change = Undefined
         /\ ~page.change_badge

C5_Witness ==
    /\ page.status = "shown"
    /\ page.view = "Daily"
    /\ PrevIdx = {}
    /\ page.total = 20
    /\ page.pct_change = Undefined

\* C6: in the daily view the preceding window has the length of the chosen
\* range [d1, d2] and ends on the day before d1; the previous total is the
\* sum over it, and the change is 100 * (current - previous) / previous
\* whenever the previous total is not 0 (20 after 10 is +100).
C6_DailyChange ==
    (page.status = "shown" /\ page.view = "Daily") =>
        LET cur  == QuantityOver(page.df, ViewIdx)
            prev == QuantityOver(page.df, PrevIdx)
        IN  /\ page.prev_end = page.d1 - 1
            /\ (page.prev_end - page.prev_start) + 1 = (page.d2 - page.d1) + 1
            /\ page.total = cur
            /\ page.total_prev = prev
            /\ prev # 0 =>
                 /\ page.pct_change.defined
                 /\ page.pct_change.num = 100 * (cur - prev)
                 /\ page.pct_change.den = prev
            /\ (cur = 20 /\ prev = 10) =>
                 page.pct_change.num = 100 * page.pct_change.den

C6_Witness ==
    /\ page.status = "shown"
    /\ page.view = "Daily"
    /\ page.total = 20
    /\ page.total_prev = 10
    /\ page.pct_change = Quotient(1000, 10)

\* C7: in the monthly view with months selected, the previous block holds as
\* many months as are selected, they are consecutive calendar months (December
\* of year y - 1 before January of year y), the last is the month before the
\* earliest selected month, each is a "YYYY-MM" label like the Month column,
\* and none of them is a selected month.
C7_PrevBlock ==
    (page.status = "shown" /\ page.view = "Monthly" /\ page.sel # {}) =>
        LET b     == page.prev_block
            k     == Cardinality(page.sel)
            first == CHOOSE m \in page.sel :
                        \A o \in page.sel : MonthNumber(m) <= MonthNumber(o)
        IN  /\ Len(b) = k
            /\ \A i \in 1..k : IsMonthLabel(b[i])
            /\ \A m \in page.sel : IsMonthLabel(m)
            /\ MonthNumber(b[k]) = MonthNumber(first) - 1
            /\ \A i \in 1..(k - 1) : MonthNumber(b[i + 1]) = MonthNumber(b[i]) + 1
            /\ Range(b) \cap page.sel = {}

C7_Witness ==
    /\ page.status = "shown"
    /\ page.view = "Monthly"
    /\ page.sel = { strftime_Y_m(to_datetime(DATE_2024_01_01)),
                    strftime_Y_m(to_datetime(DATE_2024_03_01)) }
    /\ page.prev_block = << <<"2","0","2","3","-","1","1">>,
                            <<"2","0","2","3","-","1","2">> >>

\* January 1 of the year of date.today() of the pass
YearStart == days_from_civil(civil_from_days(page.today)[1], 1, 1)

\* The last day of the filtered window of the pass: d2 in the daily view, the
\* last day of the latest selected month in the monthly view
WindowEnd ==
    IF page.view = "Daily" THEN page.d2
    ELSE LET last == CHOOSE m \in page.sel :
                        \A o \in page.sel : MonthNumber(o) <= MonthNumber(m)
             y    == MonthNumber(last) \div 12
             mo   == (MonthNumber(last) % 12) + 1
         IN  days_from_civil(y, mo, DaysInMonth(y, mo))

\* C8 as stated: the year-to-date total is the sum over the rows of the
\* selected enforcers dated from January 1 of the reference year through the
\* end of the filtered window; later rows are not counted.
C8_YtdThroughWindowEnd ==
    (page.status = "shown" /\ (page.view = "Monthly" => page.sel # {})) =>
        page.ytd_total =
            QuantityOver(page.df,
                { i \in DOMAIN page.df :
                    /\ page.df[i].Enforcer \in Eff
                    /\ page.df[i].Date # NaT
                    /\ YearStart <= page.df[i].Date
                    /\ page.df[i].Date <= WindowEnd })

\* C8: the year-to-date total is the sum over the rows of the selected
\* enforcers dated on or after January 1 of the year of date.today(); there
\* is no upper bound, so rows dated after the filtered window are counted.
C8_YtdFromYearStart ==
    page.status = "shown" =>
        page.ytd_total =
            QuantityOver(page.df,
                { i \in DOMAIN page.df :
                    /\ page.df[i].Enforcer \in Eff
                    /\ page.df[i].Date # NaT
                    /\ YearStart <= page.df[i].Date })

C8_Witness ==
    /\ page.status = "shown"
    /\ page.view = "Daily"
    /\ page.d2 = to_datetime(DATE_2024_01_01)
    /\ \E i \in DOMAIN page.df :
         /\ page.df[i].Enforcer \in Eff
         /\ page.df[i].Date = to_datetime(DATE_2024_03_01)
    /\ page.total = 10
    /\ page.ytd_total = 30

\* C9: the share of active enforcers is 100 * (distinct enforcers with a row
\* in the filtered window) / (size of the effective selection), it lies in
\* [0, 100], and with the roster of 5 as the selection and 2 enforcers
\* present it is 40.
C9_PctActive ==
    page.status = "shown" =>
        /\ page.pct_active.defined
        /\ page.pct_active.den = Cardinality(Eff)
        /\ page.pct_active.den > 0
        /\ page.pct_active.num = 100 * Cardinality(Present)
        /\ 0 <= page.pct_active.num
        /\ page.pct_active.num <= 100 * page.pct_active.den
        /\ (Cardinality(Eff) = 5 /\ Cardinality(Present) = 2) =>
             page.pct_active.num = 40 * page.pct_active.den

C9_Witness ==
    /\ page.status = "shown"
    /\ page.chosen = {}
    /\ Present = {ENFORCER_1, ENFORCER_2}
    /\ page.pct_active = Quotient(200, 5)

----------------------------------------------------------------------------
(* C3: labels of the first category that differ in case and spacing        *)

\* The data rows of the worksheet of the first enforcer
StoredRows ==
    IF has_worksheet(spreadsheet, ENFORCER_1)
    THEN Tail(spreadsheet[worksheet(spreadsheet, ENFORCER_1)].values)
    ELSE <<>>

\* The table of the scenario: three rows of 2024-05-01 with the quantities
\* 2, 3 and 5, stored under the official label and under the variant with a
\* capital "Of", doubled spaces and a trailing space
ScenarioTable ==
    /\ Len(StoredRows) = 3
    /\ \A i \in 1..3 : StoredRows[i][1] = DATE_2024_05_01
    /\ { StoredRows[i][5] : i \in 1..3 } = { str(2), str(3), str(5) }
    /\ { StoredRows[i][3] : i \in 1..3 } = { CANON_I, VARIANT_I }

\* C3 as stated: on the scenario table both labels become the one canonical
\* category, so the totals by category hold a single group of total 10.
C3_VariantsMerge ==
    (page.status = "shown" /\ ScenarioTable) =>
        /\ Cardinality(DOMAIN page.by_category) = 1
        /\ \A k \in DOMAIN page.by_category :
             /\ k[1] = CANON_I
             /\ page.by_category[k] = 10

----------------------------------------------------------------------------
(* C4: the sums of the report worksheets                                   *)

RECURSIVE ColumnTotal(_, _)
\* The sum of the last cell of the rows from row r on
ColumnTotal(values, r) ==
    IF r > Len(values) THEN 0
    ELSE int(values[r][Len(values[r])]) + ColumnTotal(values, r + 1)

\* The sum of the Quantity column of a report worksheet, under its header
ReportTotal(title) ==
    ColumnTotal(spreadsheet[worksheet(spreadsheet, title)].values, 2)

RECURSIVE CellTotal(_)
\* The sum of the Quantity cells of rows as the worksheets hold them
CellTotal(rows) ==
    IF rows = <<>> THEN 0
    ELSE int(Head(rows).Quantity) + CellTotal(Tail(rows))

\* C4 as stated, for the groupings of the report worksheets (by date,
\* enforcer, category and activity; by month, enforcer, category and
\* activity): the quantities of the groups add up to the sum of Quantity over
\* the unified table, rows with a date that does not parse included.
C4_SumsConserved ==
    (/\ has_worksheet(spreadsheet, DAILY_REPORT)
     /\ has_worksheet(spreadsheet, MONTHLY_REPORT)
     /\ entry_rows(spreadsheet) # <<>>) =>
        /\ ReportTotal(DAILY_REPORT) = CellTotal(entry_rows(spreadsheet))
        /\ ReportTotal(MONTHLY_REPORT) = CellTotal(entry_rows(spreadsheet))

----------------------------------------------------------------------------
(* C18: rows whose stored date does not parse                              *)

\* The rows of the enforcer worksheets as stored, in the order of load_all
RawRows == concat_frames(spreadsheet, ENFORCERS, <<>>)

\* Text of the form dddd-dd-dd
IsDateText(c) ==
    /\ Len(c) = 10
    /\ \A i \in {1, 2, 3, 4, 6, 7, 9, 10} : IsDigit(c[i])
    /\ c[5] = "-"
    /\ c[8] = "-"

\* The rows whose stored date is not a date
Unparsed == { i \in DOMAIN RawRows : ~IsDateText(RawRows[i].Date) }

\* C18: a row whose stored date does not parse has the date NaT in the loaded
\* table and is counted neither in the total of the daily window, nor in the
\* total of the preceding window, nor in the year-to-date total; the monthly
\* view with no month selected counts it.
C18_UnparsedExcluded ==
    page.status # "idle" =>
        /\ Len(page.df) = Len(RawRows)
        /\ \A i \in Unparsed : page.df[i].Date = NaT
        /\ page.status = "shown" =>
             LET parsed == { i \in DOMAIN page.df \ Unparsed :
                               page.df[i].Enforcer \in Eff }
             IN  /\ page.view = "Daily" =>
                      /\ page.total = QuantityOver(page.df,
                            { i \in parsed : /\ page.d1 <= page.df[i].Date
                                             /\ page.df[i].Date <= page.d2 })
                      /\ page.total_prev = QuantityOver(page.df,
                            { i \in parsed : /\ page.prev_start <= page.df[i].Date
                                             /\ page.df[i].Date <= page.prev_end })
                 /\ page.ytd_total = QuantityOver(page.df,
                        { i \in parsed : YearStart <= page.df[i].Date })
                 /\ (page.view = "Monthly" /\ page.sel = {}) =>
                      page.total = QuantityOver(page.df,
                          { i \in DOMAIN page.df : page.df[i].Enforcer \in Eff })

C18_Witness ==
    /\ page.status = "shown"
    /\ page.view = "Monthly"
    /\ page.sel = {}
    /\ \E i \in Unparsed :
         /\ page.df[i].Enforcer \in Eff
         /\ page.df[i].Quantity = 20
    /\ page.total = 30
    /\ page.ytd_total = 10

----------------------------------------------------------------------------
(* C17: the Quantity column after the load                                 *)

\* C17 as stated: whatever the Quantity cells hold, every Quantity of the
\* loaded table is a non-negative integer; a cell that is blank or not a
\* number gives 0.
C17_QuantityNonNegative ==
    page.status # "idle" =>
        /\ Len(page.df) = Len(RawRows)
        /\ \A i \in DOMAIN page.df :
             /\ page.df[i].Quantity \in Nat
             /\ RawRows[i].Quantity \in {<<>>, QTY_TEXT} => page.df[i].Quantity = 0

\* C12: once a pass of the entry page has opened the worksheet of the
\* selected name, the first row of the worksheet is the header row, whether
\* the worksheet was missing, had no cells or began with another row; the
\* rows it had are all there, unchanged and in their order, under the header
\* row; and a pass over a worksheet that has the header row leaves its rows
\* as they were (but for the rows a save appends).
C12_HeaderFirst ==
    (entry.pass = "done" /\ entry.fresh) =>
        LET values == values_of(spreadsheet, entry.name)
            kept   == IF entry.found = "header" THEN entry.before
                      ELSE <<EXPECTED_HEADERS>> \o entry.before
        IN  /\ values # <<>>
            /\ values[1] = EXPECTED_HEADERS
            /\ values = kept \o (IF entry.saved THEN entry.rows_to_save ELSE <<>>)

\* C16: the spreadsheet is opened at most three times; the call returns at
\* the first attempt that succeeds, so no attempt follows a success; it
\* waits the fixed delay after a failed first and a failed second attempt
\* and at no other time, so at most twice; it raises exactly when all three
\* attempts failed.  A call that fails later, in a pass, is made once.
C16_OpenRetries ==
    LET r      == opening.results
        n      == Len(r)
        failed == { i \in 1..n : r[i] = "error" }
    IN  /\ n <= 3
        /\ \A i \in 1..(n - 1) : r[i] = "error"
        /\ opening.outcome = "returned" <=> (n > 0 /\ r[n] = "ok")
        /\ opening.outcome = "raised" <=> (n = 3 /\ failed = 1..3)
        /\ opening.outcome = "pending" <=> (n < 3 /\ failed = 1..n)
        /\ opening.waits = Cardinality(failed \cap 1..2)
        /\ opening.waits <= 2
        /\ opening.slept = opening.waits * SLEEP_TENTHS
        /\ entry.pass = "raised" => (entry.tries = 1 /\ opening.outcome = "returned")

\* All three attempts failed: two waits, then the exception
C16_Witness ==
    /\ opening.outcome = "raised"
    /\ opening.results = <<"error", "error", "error">>
    /\ opening.waits = 2

\* C20: every counter of st.session_state is an integer that is not below
\* 0, whatever "+" buttons, "-" buttons and number_inputs were used; the
\* quantity of each row of rows_to_save is the counter of its activity in
\* the pass that built the row, and a save appends these rows.
C20_CountersNonNegative ==
    /\ \A x \in DOMAIN session_state.keys : session_state.keys[x] \in Nat
    /\ entry.pass = "done" =>
         /\ Len(entry.rows_to_save) = ActivityCount
         /\ \A k \in 1..ActivityCount :
              /\ counter_key(entry.name, k) \in DOMAIN session_state.keys
              /\ entry.rows_to_save[k][5] =
                   str(session_state.keys[counter_key(entry.name, k)])
         /\ (entry.saved /\ entry.fresh) =>
              LET values == values_of(spreadsheet, entry.name)
              IN  SubSeq(values, Len(values) - ActivityCount + 1, Len(values))
                    = entry.rows_to_save

\* A number was typed into the number_input of the second activity, the
\* "-" button then took its counter back to 0, and the rows were saved
C20_Witness ==
    /\ entry.pass = "done"
    /\ entry.saved
    /\ num_widget_key(entry.name, 2) \in DOMAIN session_state.keys
    /\ session_state.keys[num_widget_key(entry.name, 2)] = MaxCount
    /\ session_state.keys[counter_key(entry.name, 2)] = 0
    /\ entry.rows_to_save[2][5] = str(0)

\* The worksheets named after enforcers, with the rows under their first row
EnforcerTabs == { i \in DOMAIN spreadsheet : spreadsheet[i].title \in Range(ENFORCERS) }

\* The rows under the first row of worksheet i, in order
DataRowsOf(i) == SubSeq(spreadsheet[i].values, 2, Len(spreadsheet[i].values))

\* The cells of record r of the unified table, as the worksheet holds them
\* (Quantity as the text of its number)
CellsOfRecord(r) == <<r.Enforcer, r.Category, r.Activity, str(r.Quantity), r.Remarks>>

\* C19: the report worksheets never feed the unified table: every record
\* that read_all_enforcer_data() returns is a row of a worksheet named after
\* an enforcer, there are as many records as such rows, and a rebuild that
\* follows a rebuild with no save in between writes the report worksheets
\* as they already are.
C19_NoFeedback ==
    LET df      == read_all_enforcer_data(spreadsheet)
        rebuilt == rebuild_per_enforcer_reports(rebuild_global_reports(spreadsheet))
    IN  /\ \A k \in DOMAIN df :
             \E i \in EnforcerTabs :
               \E q \in DOMAIN DataRowsOf(i) :
                 Tail(DataRowsOf(i)[q]) = CellsOfRecord(df[k])
        /\ Len(df) = data_rows([ i \in DOMAIN spreadsheet |->
                         IF i \in EnforcerTabs THEN spreadsheet[i]
                         ELSE [ title |-> spreadsheet[i].title, values |-> <<>> ] ])
        /\ rebuild_per_enforcer_reports(rebuild_global_reports(rebuilt)) = rebuilt

\* Two saves were made and rebuilt into the report worksheets, global and
\* per enforcer, and the unified table has the rows of the two saves
C19_Witness ==
    /\ has_worksheet(spreadsheet, DAILY_REPORT)
    /\ has_worksheet(spreadsheet, PREFIX_DAILY \o ENFORCER_1)
    /\ Len(spreadsheet[worksheet(spreadsheet, DAILY_REPORT)].values) > 1
    /\ Len(read_all_enforcer_data(spreadsheet)) = 2 * ActivityCount

\* C13: the worksheets of the enforcers are an append-only log: a step of
\* the program (a save, a pass of a page, a rebuild of the reports, a read)
\* leaves every row of such a worksheet where it was and as it was, and
\* adds nothing or the 17 rows of one save under them (with the header row
\* first, when the worksheet is new or had no cells); no such worksheet
\* goes away.
C13_AppendOnly ==
    [][ /\ \A i \in DOMAIN spreadsheet :
             spreadsheet[i].title \in Range(ENFORCERS) =>
               /\ i \in DOMAIN spreadsheet'
               /\ spreadsheet'[i].title = spreadsheet[i].title
               /\ LET old == spreadsheet[i].values
                      new == spreadsheet'[i].values
                  IN  /\ Len(new) >= Len(old)
                      /\ SubSeq(new, 1, Len(old)) = old
                      /\ Len(new) - Len(old) \in
                           (IF old = <<>> THEN {0, 1, 18} ELSE {0, 17})
        /\ \A i \in DOMAIN spreadsheet' \ DOMAIN spreadsheet :
             spreadsheet'[i].title \in Range(ENFORCERS) =>
               /\ Len(spreadsheet'[i].values) \in {1, 18}
               /\ spreadsheet'[i].values[1] = EXPECTED_HEADERS ]_vars

\* The worksheet of Enforcer 1 holds the rows of two saves of the same day,
\* so two rows for each activity, and the report worksheets were rebuilt
C13_Witness ==
    /\ has_worksheet(spreadsheet, ENFORCER_1)
    /\ has_worksheet(spreadsheet, DAILY_REPORT)
    /\ LET values == values_of(spreadsheet, ENFORCER_1)
       IN  /\ Len(values) = 1 + 2 * 17
           /\ \A k \in 1..17 :
                SubSeq(values[1 + k], 1, 4) = SubSeq(values[18 + k], 1, 4)

\* Whether no worksheet of an enforcer holds a data row
NoDataRows == \A i \in EnforcerTabs : Len(spreadsheet[i].values) <= 1

\* The six columns of the worksheets
SixColumns == {H_Date, H_Enforcer, H_Category, H_Activity, H_Quantity, H_Remarks}

\* C11 as stated: with no worksheet of an enforcer, or none that holds a
\* data row, each load step returns a table with no rows whose columns are
\* exactly the six columns, and a pass of the page shows the no-data state.
C11_ExactlySixColumns ==
    NoDataRows =>
        /\ load_all(spreadsheet) = <<>>
        /\ read_all_enforcer_data(spreadsheet) = <<>>
        /\ ~read_raises(spreadsheet)
        /\ Range(load_all_columns(spreadsheet)) = SixColumns
        /\ Range(manager_load_all_columns(spreadsheet)) = SixColumns
        /\ Range(read_all_enforcer_data_columns(spreadsheet)) = SixColumns
        /\ page.status # "idle" => page.status = "no_data"

\* C11, amended: with no worksheet of an enforcer, or none that holds a data
\* row, each load step returns a table with no rows and raises nothing; the
\* columns are the six columns for read_all_enforcer_data(), the six and
\* Month for load_all() of the Manager Dashboard, the six, Month and
\* CategoryShort for load_all() of the Reports Dashboard; and a pass of the
\* page shows the no-data state.
C11_EmptyLoad ==
    NoDataRows =>
        /\ load_all(spreadsheet) = <<>>
        /\ read_all_enforcer_data(spreadsheet) = <<>>
        /\ ~read_raises(spreadsheet)
        /\ Range(load_all_columns(spreadsheet))
             = SixColumns \cup {H_Month, H_CategoryShort}
        /\ Range(manager_load_all_columns(spreadsheet)) = SixColumns \cup {H_Month}
        /\ Range(read_all_enforcer_data_columns(spreadsheet)) = SixColumns
        /\ page.status # "idle" => page.status = "no_data"

\* Worksheets of enforcers exist, one with the header row only and one with
\* no cell, none holds a data row, and the Reports Dashboard showed the
\* no-data state
C11_Witness ==
    /\ NoDataRows
    /\ \E i \in EnforcerTabs : spreadsheet[i].values = <<EXPECTED_HEADERS>>
    /\ \E i \in EnforcerTabs : spreadsheet[i].values = <<>>
    /\ page.status = "no_data"

\* Whether every session is between two passes and has saved
Quiescent ==
    /\ Len(sessions) = 2
    /\ \A s \in DOMAIN sessions : sessions[s].pc = "ready" /\ sessions[s].saves > 0

\* C15: when two sessions have run rebuild_global_reports() at the same
\* time, the Daily Report worksheet holds what the overwrite of one of the
\* two wrote, whole, and so does the Monthly Report worksheet; never rows of
\* the one mixed with rows of the other.
C15_LastWriterWins ==
    (Quiescent /\ \A s \in DOMAIN sessions : sessions[s].script = "dashboard") =>
        /\ \E s \in DOMAIN sessions :
             values_of(spreadsheet, DAILY_REPORT) = written_by(sessions[s].daily)
        /\ \E s \in DOMAIN sessions :
             values_of(spreadsheet, MONTHLY_REPORT) = written_by(sessions[s].monthly)

\* C14: a save writes only to the worksheet named after the enforcer its
\* session selected: at every point of every interleaving, the worksheet of
\* each session's enforcer holds the header row and exactly the rows that
\* session appended, in order, each row naming that enforcer; and there is
\* no worksheet of an enforcer that no session selected.
C14_DisjointTables ==
    /\ \A s \in DOMAIN sessions :
         values_of(spreadsheet, sessions[s].name)
           = <<EXPECTED_HEADERS>> \o sessions[s].appended
    /\ \A i \in EnforcerTabs :
         /\ \E s \in DOMAIN sessions : sessions[s].name = spreadsheet[i].title
         /\ \A q \in DOMAIN DataRowsOf(i) :
              DataRowsOf(i)[q][2] = spreadsheet[i].title

\* A session of Monitoring Dashboard.py and a session of dashboard.py, of
\* different enforcers, have both saved, and the reports were rebuilt
C14_Witness ==
    /\ Quiescent
    /\ \E s \in DOMAIN sessions : sessions[s].script = "monitoring"
    /\ \E s \in DOMAIN sessions : sessions[s].script = "dashboard"
    /\ \A s \in DOMAIN sessions : Len(sessions[s].appended) = 17
    /\ has_worksheet(spreadsheet, DAILY_REPORT)

====
